---- MODULE Spec2Model ----
(***************************************************************************)
(* Color Tap: the collision / elimination core of game.py, the winnability *)
(* check of level_validator.py, the shell stack of nested_shapes.py, the   *)
(* level generator of level_generator.py / zone_level_generator.py, the    *)
(* level files of level_data.py and the motion of shape_behaviors.py.      *)
(*                                                                         *)
(* A shape is a record                                                     *)
(*   [id, kind, color, size, shells, x, y, width, height, base_size,       *)
(*    velocity_x, velocity_y, momentum_x, momentum_y, being_dragged,       *)
(*    drag_offset_x, drag_offset_y]                                        *)
(* id stands for the identity of the Python object (list.remove and `in`   *)
(* compare objects by identity: Shape defines no __eq__), kind is the      *)
(* class name, shells is the list of <<color, size>> pairs of a            *)
(* NestedShape / StaticShape (<<>> for a plain shape).  Positions,         *)
(* velocities and momenta are floats in the code and whole numbers of      *)
(* 1/Q pixel here; sizes, widths and heights are whole pixels.             *)
(***************************************************************************)
EXTENDS Integers, Sequences, FiniteSets, TLC

VARIABLES
    shapes,                 \* Game.shapes
    target_color,           \* Game.target_color
    last_merged_color,      \* Game.last_merged_color
    level_complete,         \* Game.level_complete
    show_impossible_popup,  \* Game.show_impossible_popup
    gen_pc,                 \* where LevelGenerator.create_level stands
    gen_attempt,            \* the legacy loop's `attempt`
    gen_target,             \* create_level's target_color
    gen_strategy,           \* create_level's strategy.name
    gen_result,             \* what create_level returned (or raised)
    gen_autofix,            \* number of auto_fix_overlaps calls of this run
    bounced,                \* the bounce_off calls of the last check_collisions
    dragging_shape,         \* Game.dragging_shape (identity, 0 for None)
    current_level_data,     \* Game.current_level_data
    level_files,            \* the level_<id>.json files of LevelPersistence
    call                    \* the objects a caller of the level_data API holds

gameVars == <<shapes, target_color, last_merged_color, level_complete,
              show_impossible_popup>>
genVars == <<gen_pc, gen_attempt, gen_target, gen_strategy, gen_result,
             gen_autofix>>
levelVars == <<dragging_shape, current_level_data, level_files, call>>
vars == <<shapes, target_color, last_merged_color, level_complete,
          show_impossible_popup, gen_pc, gen_attempt, gen_target,
          gen_strategy, gen_result, gen_autofix, bounced, dragging_shape,
          current_level_data, level_files, call>>

None == "None"

\* ------------------------------------------------------------------ bounds
MaxShapes == 3      \* longest shape list a game starts with
MaxShells == 3      \* most shells of a NestedShape built at Init
MaxCount == 3       \* most plain shapes per color in a plain level

\* ------------------------------------------------------------------ colors
\* config.Color members used by the game states of the model
Colors == {"RED", "BLUE", "GREEN"}
ColorList == <<"RED", "BLUE", "GREEN">>

\* ------------------------------------------------------------------ helpers
Range(s) == {s[i] : i \in 1..Len(s)}

RECURSIVE SumSeq(_)
SumSeq(s) == IF s = <<>> THEN 0 ELSE Head(s) + SumSeq(Tail(s))

RECURSIVE Concat(_)
Concat(ss) == IF ss = <<>> THEN <<>> ELSE Head(ss) \o Concat(Tail(ss))

\* ------------------------------------------------------------------ numbers
\* Positions, velocities and momenta are Python floats.  They are kept here
\* as whole numbers of 1/Q pixel (per frame), products and quotients rounded
\* toward zero; sizes, widths and heights are whole pixels as in the source.
Q == 10000

\* n pixels
Px(n) == n * Q

Abs(a) == IF a < 0 THEN 0 - a ELSE a

\* a / d rounded toward zero (d > 0)
Trunc(a, d) == IF a >= 0 THEN a \div d ELSE 0 - ((0 - a) \div d)

\* ------------------------------------------------------------------ shapes
PlainKinds == {"Circle", "Square", "Triangle", "Rectangle"}

\* Shape.__init__ (size defaults to 30); a plain shape has no shells
\* attribute, and only a Rectangle has width and height (0 stands for the
\* missing attribute).  Shapes are built at (0, 0) and placed with At.
\* mass is size / 20.0 of the size given here, which base_size keeps.
Shape(id, kind, color, size) ==
    [id |-> id, kind |-> kind, color |-> color, size |-> size, shells |-> <<>>,
     x |-> 0, y |-> 0, width |-> 0, height |-> 0, base_size |-> size,
     velocity_x |-> 0, velocity_y |-> 0, momentum_x |-> 0, momentum_y |-> 0,
     being_dragged |-> FALSE, drag_offset_x |-> 0, drag_offset_y |-> 0]

\* Rectangle.__init__: Shape.__init__ without a size, then width and height
Rectangle(id, color, width, height) ==
    [Shape(id, "Rectangle", color, 30) EXCEPT !.width = width, !.height = height]

\* the shape with its x and y set
At(s, x, y) == [s EXCEPT !.x = x, !.y = y]

\* NestedShape.__init__: color and size are those of the outermost shell
NestedShape(id, shells) ==
    [Shape(id, "NestedShape", shells[1][1], shells[1][2]) EXCEPT !.shells = shells]

\* StaticShape.__init__: a NestedShape with is_static = True
StaticShape(id, shells) ==
    [Shape(id, "StaticShape", shells[1][1], shells[1][2]) EXCEPT !.shells = shells]

\* isinstance(shape, NestedShape): StaticShape is a subclass of NestedShape
IsNestedShape(s) == s.kind \in {"NestedShape", "StaticShape"}
\* isinstance(shape, StaticShape)
IsStaticShape(s) == s.kind = "StaticShape"

\* NestedShapeFactory.create_nested_shape: shell i (from 0) has size
\* base_size - 8*i and color color_sequence[i % len(color_sequence)]
create_nested_shape(id, num_shells, base_size, color_sequence) ==
    NestedShape(id, [i \in 1..num_shells |->
        <<color_sequence[((i - 1) % Len(color_sequence)) + 1],
          base_size - (i - 1) * 8>>])

\* NestedShapeFactory.create_static_shape: shells shrink by 10
create_static_shape(id, num_shells, base_size, color_sequence) ==
    StaticShape(id, [i \in 1..num_shells |->
        <<color_sequence[((i - 1) % Len(color_sequence)) + 1],
          base_size - (i - 1) * 10>>])

\* get_collision_radius: the size of the outermost shell of a NestedShape (0
\* without shells), half the longer side of a Rectangle, the size otherwise
get_collision_radius(s) ==
    IF IsNestedShape(s)
    THEN (IF s.shells # <<>> THEN s.shells[1][2] ELSE 0)
    ELSE IF s.kind = "Rectangle"
    THEN (IF s.width > s.height THEN s.width ELSE s.height) \div 2
    ELSE s.size

\* get_max_dimension: the size of the outermost shell of a NestedShape (0
\* without shells), the longer side of a Rectangle, the size otherwise
get_max_dimension(s) ==
    IF IsNestedShape(s)
    THEN (IF s.shells # <<>> THEN s.shells[1][2] ELSE 0)
    ELSE IF s.kind = "Rectangle"
    THEN (IF s.width > s.height THEN s.width ELSE s.height)
    ELSE s.size

\* a * a for a >= 0 as the pair <<hi, lo>> standing for hi * Q * Q + lo: the
\* squares of positions do not fit the integers of the checker
SquareOf(a) ==
    LET h == a \div Q
        l == a % Q
        low == ((2 * h * l) % Q) * Q + l * l
    IN  << h * h + ((2 * h * l) \div Q) + (low \div (Q * Q)), low % (Q * Q) >>

\* dx * dx + dy * dy as such a pair
SumOfSquares(dx, dy) ==
    LET a == SquareOf(Abs(dx))
        b == SquareOf(Abs(dy))
    IN  << a[1] + b[1] + ((a[2] + b[2]) \div (Q * Q)), (a[2] + b[2]) % (Q * Q) >>

\* the order of two such pairs
PairLess(a, b) == a[1] < b[1] \/ (a[1] = b[1] /\ a[2] < b[2])

RECURSIVE RootBetween(_, _, _)
\* the largest r in low..high with r * r <= n (low * low <= n)
RootBetween(n, low, high) ==
    IF low = high THEN low
    ELSE LET mid == (low + high + 1) \div 2 IN
         IF PairLess(n, SquareOf(mid)) THEN RootBetween(n, low, mid - 1)
         ELSE RootBetween(n, mid, high)

\* math.sqrt(dx * dx + dy * dy), rounded down to 1/Q pixel
Hypot(dx, dy) ==
    IF dy = 0 THEN Abs(dx)
    ELSE IF dx = 0 THEN Abs(dy)
    ELSE RootBetween(SumOfSquares(dx, dy), 0, Abs(dx) + Abs(dy))

\* Shape.get_distance_to
get_distance_to(s, other_shape) == Hypot(s.x - other_shape.x, s.y - other_shape.y)

\* Shape.is_colliding_with and NestedShape.is_colliding_with: the distance
\* is below the sum of the collision radii
is_colliding_with(s, other_shape) ==
    LET reach == get_collision_radius(s) + get_collision_radius(other_shape) IN
    /\ reach > 0
    /\ PairLess(SumOfSquares(s.x - other_shape.x, s.y - other_shape.y),
                SquareOf(Px(reach)))

\* contains_point(x, y) of Circle, Square, Triangle, Rectangle and NestedShape
contains_point(s, x, y) ==
    LET dx == x - s.x
        dy == y - s.y
    IN  IF s.kind = "Square"
        THEN Abs(dx) < Px(s.size) /\ Abs(dy) < Px(s.size)
        ELSE IF s.kind = "Rectangle"
        THEN Abs(dx) < Px(s.width \div 2) /\ Abs(dy) < Px(s.height \div 2)
        ELSE IF IsNestedShape(s)
        THEN /\ s.shells # <<>>
             /\ PairLess(SumOfSquares(dx, dy), SquareOf(Px(s.shells[1][2])))
        ELSE /\ s.size > 0
             /\ PairLess(SumOfSquares(dx, dy), SquareOf(Px(s.size)))

get_shell_count(s) == Len(s.shells)
is_empty(s) == Len(s.shells) = 0

\* remove_outer_shell forgetting to move color and size to the new outer shell
remove_outer_shell_stale(s) ==
    IF Len(s.shells) > 1
    THEN [shape |-> [s EXCEPT !.shells = Tail(s.shells)], ret |-> TRUE]
    ELSE IF Len(s.shells) = 1
    THEN [shape |-> [s EXCEPT !.shells = <<>>], ret |-> TRUE]
    ELSE [shape |-> s, ret |-> FALSE]

\* remove_outer_shell refusing to take the last shell
remove_outer_shell_keep_last(s) ==
    IF Len(s.shells) > 1
    THEN [shape |-> [s EXCEPT !.shells = Tail(s.shells),
                              !.color = Tail(s.shells)[1][1],
                              !.size = Tail(s.shells)[1][2]],
          ret |-> TRUE]
    ELSE [shape |-> s, ret |-> FALSE]

\* NestedShape.remove_outer_shell: the shape afterwards and the returned flag
remove_outer_shell(s) ==
    IF Len(s.shells) > 1
    THEN [shape |-> [s EXCEPT !.shells = Tail(s.shells),
                              !.color = Tail(s.shells)[1][1],
                              !.size = Tail(s.shells)[1][2]],
          ret |-> TRUE]
    ELSE IF Len(s.shells) = 1
    THEN [shape |-> [s EXCEPT !.shells = <<>>], ret |-> TRUE]
    ELSE [shape |-> s, ret |-> FALSE]

\* ------------------------------------------------------------------ validator
RECURSIVE SumOver(_, _)
\* sum(f[c] for c in S)
SumOver(S, f) ==
    IF S = {} THEN 0
    ELSE LET c == CHOOSE x \in S : TRUE IN f[c] + SumOver(S \ {c}, f)

\* the Counter counting every shape once, nested or not
color_counts_per_shape(shps) ==
    [c \in {shps[i].color : i \in 1..Len(shps)} |->
        Cardinality({i \in 1..Len(shps) : shps[i].color = c})]

\* the Counter built by LevelValidator.is_level_winnable: a NestedShape adds
\* its shell count to its (outer) color, any other shape adds 1 to its color
color_counts(shps) ==
    [c \in {shps[i].color : i \in 1..Len(shps)} |->
        SumSeq([i \in 1..Len(shps) |->
            IF shps[i].color = c
            THEN (IF IsNestedShape(shps[i]) THEN get_shell_count(shps[i]) ELSE 1)
            ELSE 0])]

\* is_level_winnable without the `or target_pairs == 1` alternative
is_level_winnable_strict(shps, target) ==
    LET counts == [c \in {shps[i].color : i \in 1..Len(shps)} |->
                     SumSeq([i \in 1..Len(shps) |->
                        IF shps[i].color = c
                        THEN (IF IsNestedShape(shps[i]) THEN Len(shps[i].shells) ELSE 1)
                        ELSE 0])]
        target_count == IF target \in DOMAIN counts THEN counts[target] ELSE 0
        total_pairs == SumOver(DOMAIN counts, [c \in DOMAIN counts |-> counts[c] \div 2])
        target_pairs == target_count \div 2
    IN  IF target_count < 2 THEN FALSE
        ELSE target_pairs > 0 /\ total_pairs = target_pairs

\* LevelValidator.is_level_winnable (LevelGenerator.is_level_winnable
\* delegates to it)
is_level_winnable(shps, target) ==
    LET counts == color_counts(shps)
        target_count == IF target \in DOMAIN counts THEN counts[target] ELSE 0
        total_pairs == SumOver(DOMAIN counts, [c \in DOMAIN counts |-> counts[c] \div 2])
        target_pairs == target_count \div 2
    IN  IF target_count < 2 THEN FALSE
        ELSE target_pairs > 0 /\ (total_pairs = target_pairs \/ target_pairs = 1)

\* ------------------------------------------------------------------ game
\* The fields of Game the handlers read and write, as one record
Game == [shapes |-> shapes, target_color |-> target_color,
         last_merged_color |-> last_merged_color,
         level_complete |-> level_complete,
         show_impossible_popup |-> show_impossible_popup]

\* Game.check_level_possibility
check_level_possibility(g) ==
    IF Len(g.shapes) > 0 /\ ~is_level_winnable(g.shapes, g.target_color)
    THEN [g EXCEPT !.show_impossible_popup = TRUE]
    ELSE g

\* a completion check that takes every shape for movable
every_shape_movable(shps) == shps

\* movable_shapes of Game.check_level_completion
movable_shapes(shps) == SelectSeq(shps, LAMBDA s : ~IsStaticShape(s))

\* color_counts.get(target_color, 0) of Game.check_level_completion: every
\* shell of a movable NestedShape counts, a plain shape counts once
completion_target_count(mov, target) ==
    SumSeq([i \in 1..Len(mov) |->
        IF IsNestedShape(mov[i])
        THEN Cardinality({k \in 1..Len(mov[i].shells) : mov[i].shells[k][1] = target})
        ELSE (IF mov[i].color = target THEN 1 ELSE 0)])

\* check_level_completion completing on an empty arena whatever color went last
check_level_completion_any_color(g) ==
    LET mov == SelectSeq(g.shapes, LAMBDA s : ~IsStaticShape(s)) IN
    IF Len(mov) = 0
    THEN [g EXCEPT !.level_complete = TRUE]
    ELSE IF completion_target_count(mov, g.target_color) = 0
         THEN [g EXCEPT !.show_impossible_popup = TRUE]
         ELSE IF Len(mov) = 1 /\ mov[1].color = g.target_color
              THEN [g EXCEPT !.level_complete = TRUE]
              ELSE g

\* check_level_completion without the single-survivor win
check_level_completion_no_survivor(g) ==
    LET mov == SelectSeq(g.shapes, LAMBDA s : ~IsStaticShape(s)) IN
    IF Len(mov) = 0
    THEN IF g.last_merged_color = g.target_color
         THEN [g EXCEPT !.level_complete = TRUE]
         ELSE [g EXCEPT !.show_impossible_popup = TRUE]
    ELSE IF completion_target_count(mov, g.target_color) = 0
         THEN [g EXCEPT !.show_impossible_popup = TRUE]
         ELSE g

\* Game.check_level_completion
check_level_completion(g) ==
    LET mov == movable_shapes(g.shapes) IN
    IF Len(mov) = 0
    THEN IF g.last_merged_color = g.target_color
         THEN [g EXCEPT !.level_complete = TRUE]
         ELSE [g EXCEPT !.show_impossible_popup = TRUE]
    ELSE IF completion_target_count(mov, g.target_color) = 0
         THEN [g EXCEPT !.show_impossible_popup = TRUE]
         ELSE IF Len(mov) = 1 /\ mov[1].color = g.target_color
              THEN [g EXCEPT !.level_complete = TRUE]
              ELSE g

\* the loop peeling every NestedShape, whatever its color
peel_all(shps, collision_color) ==
    [i \in 1..Len(shps) |->
        IF IsNestedShape(shps[i])
        THEN remove_outer_shell(shps[i]).shape
        ELSE shps[i]]

\* the loop with no remove_outer_shell call in it
peel_none(shps, collision_color) == shps

\* the loop of Game.handle_same_color_collision over self.shapes: every
\* NestedShape (StaticShape included) whose color is the collision color
\* has remove_outer_shell called on it, in place
peel_matching(shps, collision_color) ==
    [i \in 1..Len(shps) |->
        IF IsNestedShape(shps[i]) /\ shps[i].color = collision_color
        THEN remove_outer_shell(shps[i]).shape
        ELSE shps[i]]

\* shapes_to_remove without the emptied NestedShapes
shapes_to_remove_plain(shps, collision_color) ==
    {shps[i].id : i \in {k \in 1..Len(shps) :
        shps[k].color = collision_color /\ ~IsNestedShape(shps[k])}}

\* shapes_to_remove of Game.handle_same_color_collision, as object identities
shapes_to_remove(shps, collision_color) ==
    {shps[i].id : i \in {k \in 1..Len(shps) :
        /\ shps[k].color = collision_color
        /\ IF IsNestedShape(shps[k])
           THEN remove_outer_shell(shps[k]).ret
                /\ is_empty(remove_outer_shell(shps[k]).shape)
           ELSE TRUE}}

\* Game.handle_same_color_collision(shape1, shape2): only shape1.color is read
handle_same_color_collision(g, shape1) ==
    LET collision_color == shape1.color
        gone == shapes_to_remove(g.shapes, collision_color)
        peeled == peel_matching(g.shapes, collision_color)
        g1 == [g EXCEPT !.last_merged_color = collision_color,
                        !.shapes = SelectSeq(peeled, LAMBDA s : s.id \notin gone)]
    IN  check_level_completion(check_level_possibility(g1))

\* the pairs (i, j), i < j, that Game.check_collisions visits, in scan order
ScanPairs(n) == {p \in (1..n) \X (1..n) : p[1] < p[2]}
ScanBefore(p, q) == p[1] < q[1] \/ (p[1] = q[1] /\ p[2] < q[2])

\* check_collisions scanning on after an elimination: the last colliding
\* pair of equal color triggers a second one
check_collisions_every(g, colliding) ==
    LET same == {p \in colliding : g.shapes[p[1]].color = g.shapes[p[2]].color} IN
    IF same = {} THEN g
    ELSE LET first == CHOOSE p \in same : \A q \in same : q = p \/ ScanBefore(p, q)
             last == CHOOSE p \in same : \A q \in same : q = p \/ ScanBefore(q, p)
             g1 == handle_same_color_collision(g, g.shapes[first[1]])
         IN  IF last = first THEN g1
             ELSE handle_same_color_collision(g1, g.shapes[last[1]])

\* Game.check_collisions, given the pairs for which is_colliding_with is true
\* when asked: pairs of different color bounce (what bounce_off does to
\* positions and velocities is not part of this model), the first pair of
\* equal color triggers the elimination and ends the scan
check_collisions(g, colliding) ==
    LET same == {p \in colliding : g.shapes[p[1]].color = g.shapes[p[2]].color} IN
    IF same = {} THEN g
    ELSE LET first == CHOOSE p \in same : \A q \in same : q = p \/ ScanBefore(p, q)
         IN  handle_same_color_collision(g, g.shapes[first[1]])

\* The geometry decides which pairs overlap in a frame; dragging can put any
\* shape on any other, so the overlap of a frame is an input: no pair, or
\* one pair
CollisionInputs(n) == {{}} \cup {{p} : p \in ScanPairs(n)}

SetGame(g) ==
    /\ shapes' = g.shapes
    /\ target_color' = g.target_color
    /\ last_merged_color' = g.last_merged_color
    /\ level_complete' = g.level_complete
    /\ show_impossible_popup' = g.show_impossible_popup

\* the pairs of ScanPairs(n) as the nested loops of check_collisions meet them
ScanOrder(n) == Concat([i \in 1..n |-> [k \in 1..(n - i) |-> <<i, i + k>>]])

\* a scan that stops bouncing after the first bounce_off
bounce_calls_first(g, colliding) ==
    LET same == {p \in colliding : g.shapes[p[1]].color = g.shapes[p[2]].color}
        met == SelectSeq(ScanOrder(Len(g.shapes)), LAMBDA p :
                  /\ p \in colliding
                  /\ g.shapes[p[1]].color # g.shapes[p[2]].color
                  /\ \A q \in same : ScanBefore(p, q))
    IN  IF met = <<>> THEN <<>>
        ELSE <<  <<g.shapes[met[1][1]].id, g.shapes[met[1][2]].id>>  >>

\* the bounce_off calls of one Game.check_collisions, as pairs of object
\* identities in call order: the colliding pairs of different color met
\* before the scan ends (at the first colliding pair of equal color, or
\* after the last pair)
bounce_calls(g, colliding) ==
    LET same == {p \in colliding : g.shapes[p[1]].color = g.shapes[p[2]].color}
        met == SelectSeq(ScanOrder(Len(g.shapes)), LAMBDA p :
                  /\ p \in colliding
                  /\ g.shapes[p[1]].color # g.shapes[p[2]].color
                  /\ \A q \in same : ScanBefore(p, q))
    IN  [k \in 1..Len(met) |-> <<g.shapes[met[k][1]].id, g.shapes[met[k][2]].id>>]

\* Game.__init__: self.current_level_data = None
NoLevelData == [loaded |-> FALSE, level_id |-> None, original_shapes |-> <<>>,
                target_color |-> None]

\* a caller that has called nothing yet: no shape list (arg), no LevelData
\* (level), no descriptor index (k), no reconstructed shapes (value), no
\* exception
NoCall == [op |-> None, raised |-> None, arg |-> <<>>, level |-> NoLevelData,
           k |-> 0, value |-> <<>>]

\* the pairs of list positions that overlap in a frame (is_colliding_with
\* is true when the scan asks), in scan order
colliding_seen(n, colliding) ==
    SelectSeq(ScanOrder(n), LAMBDA p : p \in colliding)

\* one frame's Game.check_collisions, the colliding pairs drawn from inputs;
\* call keeps what is_colliding_with answered during the scan
CheckCollisionsWith(inputs) ==
    /\ \E colliding \in inputs :
          /\ SetGame(check_collisions(Game, colliding))
          /\ bounced' = bounce_calls(Game, colliding)
          /\ call' = [NoCall EXCEPT !.op = "check_collisions",
                                    !.arg = colliding_seen(Len(shapes), colliding)]
    /\ UNCHANGED genVars
    /\ UNCHANGED <<dragging_shape, current_level_data, level_files>>

\* one frame's Game.check_collisions with at most one colliding pair
CheckCollisions == CheckCollisionsWith(CollisionInputs(Len(shapes)))

\* K_ESCAPE in Game.run / ColorTapApp.run_game
KeyEscape ==
    /\ show_impossible_popup' = (IF show_impossible_popup THEN FALSE
                                 ELSE show_impossible_popup)
    /\ UNCHANGED <<shapes, target_color, last_merged_color, level_complete>>
    /\ UNCHANGED genVars
    /\ UNCHANGED <<bounced, levelVars>>

\* ------------------------------------------------------------------ levels
\* color sequences handed to the factories: the orders of the three colors
Palettes == {p \in [1..3 -> Colors] : \A i, j \in 1..3 : i # j => p[i] # p[j]}

\* the shapes a shape list is made of at Init (id 0: not yet in a list):
\* plain shapes of the default size, NestedShapes of 1..MaxShells shells as
\* NestedShapeFactory.create_nested_shape builds them from base size 30, and
\* StaticShapes of 1 shell (create_hollow_container) or 2 shells
\* (create_static_shape's default) from base size 60
ShapeUniverse ==
    {Shape(0, "Circle", c, 30) : c \in Colors}
    \cup {create_nested_shape(0, n, 30, p) : n \in 1..MaxShells, p \in Palettes}
    \cup {create_static_shape(0, n, 60, p) : n \in {1, 2}, p \in Palettes}

RECURSIVE Multisets(_, _)
\* the multisets of n elements of S, each listed once as a sequence
Multisets(S, n) ==
    IF n = 0 THEN {<<>>}
    ELSE IF S = {} THEN {}
    ELSE LET x == CHOOSE y \in S : TRUE IN
         {<<x>> \o m : m \in Multisets(S, n - 1)} \cup Multisets(S \ {x}, n)

\* a list of distinct objects: the i-th gets identity i
WithIds(m) == [i \in 1..Len(m) |-> [m[i] EXCEPT !.id = i]]

\* no create_level call has ended yet
NoResult == [returned |-> FALSE, raised |-> None, shapes_null |-> TRUE,
             shapes |-> <<>>, target_color |-> None, algorithm |-> None]

\* the level identifiers the files are named after
LevelIds == {"a", "b"}

\* the files of LevelPersistence: level_<id>.json and current_level.json
FileNames == LevelIds \cup {"current"}

\* no such file on disk
NoFile == [exists |-> FALSE, level_id |-> None, target_color |-> <<>>,
           original_shapes |-> <<>>]

\* the level-data side of a Game whose shape list was assigned directly:
\* nothing bounced, nothing dragged, no level data, no file, no API call
LevelIdle ==
    /\ bounced = <<>>
    /\ dragging_shape = 0
    /\ current_level_data = NoLevelData
    /\ level_files = [i \in FileNames |-> NoFile]
    /\ call = NoCall

GenIdle ==
    /\ gen_pc = "idle"
    /\ gen_attempt = 0
    /\ gen_target = None
    /\ gen_strategy = None
    /\ gen_result = NoResult
    /\ gen_autofix = 0

\* Game.__init__, then a shape list and a target color assigned the way
\* tests/test_enhanced_game_logic.py sets a game up.  The order of the list
\* only decides which colliding pair check_collisions meets first, and the
\* colliding pair is an input of CheckCollisions, so each multiset of shapes
\* is listed once.
Init ==
    /\ \E n \in 0..MaxShapes : \E m \in Multisets(ShapeUniverse, n) :
          shapes = WithIds(m)
    /\ target_color \in Colors
    /\ last_merged_color = None
    /\ level_complete = FALSE
    /\ show_impossible_popup = FALSE
    /\ GenIdle
    /\ LevelIdle

RECURSIVE Repeat(_, _)
Repeat(x, n) == IF n = 0 THEN <<>> ELSE <<x>> \o Repeat(x, n - 1)

\* a level of plain shapes only, the kind LevelData.dict_to_shape rebuilds:
\* counts[c] circles of color c
plain_level(counts) ==
    WithIds(Concat([k \in 1..Len(ColorList) |->
        Repeat(Shape(0, "Circle", ColorList[k], 30), counts[ColorList[k]])]))

\* Game.load_level_from_data on a level of plain shapes
InitPlain ==
    /\ \E counts \in [Colors -> 0..MaxCount] : shapes = plain_level(counts)
    /\ target_color \in Colors
    /\ last_merged_color = None
    /\ level_complete = FALSE
    /\ show_impossible_popup = FALSE
    /\ GenIdle
    /\ LevelIdle


\* ------------------------------------------------------------------ zones
WINDOW_WIDTH == 800
WINDOW_HEIGHT == 600
PrimeLimit == 1000      \* PrimeNumberGenerator.__init__: _generate_primes(1000)
ZoneMargin == 50        \* create_zone_based_level: margin
ZoneMaxDepth == 3       \* create_zone_based_level: max_depth=3

\* PrimeNumberGenerator._generate_primes: the primes up to PrimeLimit, ascending
primes ==
    SelectSeq([i \in 1..(PrimeLimit - 1) |-> i + 1],
              LAMBDA n : \A d \in 2..(n - 1) : d * d > n \/ n % d # 0)

RECURSIVE FibPrimesFrom(_, _)
\* the loop of PrimeNumberGenerator._fibonacci_primes from the pair (a, b)
FibPrimesFrom(a, b) ==
    IF b < 1000
    THEN (IF b \in Range(primes) THEN <<b>> ELSE <<>>) \o FibPrimesFrom(b, a + b)
    ELSE <<>>

\* PrimeNumberGenerator._fibonacci_primes
fibonacci_primes == FibPrimesFrom(1, 1)

\* PrimeNumberGenerator.get_prime_size_sequence(1)[0]:
\* 20 + sum(primes[:3]) % 50
prime_size == 20 + (SumSeq(SubSeq(primes, 1, 3)) % 50)

\* Zone.__init__
Zone(x, y, width, height, depth) ==
    [x |-> x, y |-> y, width |-> width, height |-> height, depth |-> depth]

\* int(a + b / golden_ratio) for the non-negative integers of a zone: 1/phi
\* is 0.6180339887..., and for b < 2000 the six-digit fraction truncates to
\* the same integer
GoldenSplit(a, b) == a + ((b * 618034) \div 1000000)

\* the children ZoneLevelGenerator._subdivide_horizontally creates
horizontal_children(z) ==
    LET split_y == GoldenSplit(z.y, z.height) IN
    << Zone(z.x, z.y, z.width, split_y - z.y, z.depth + 1),
       Zone(z.x, split_y, z.width, z.y + z.height - split_y, z.depth + 1) >>

\* the children ZoneLevelGenerator._subdivide_vertically creates
vertical_children(z) ==
    LET split_x == GoldenSplit(z.x, z.width) IN
    << Zone(z.x, z.y, split_x - z.x, z.height, z.depth + 1),
       Zone(split_x, z.y, z.x + z.width - split_x, z.height, z.depth + 1) >>

\* quadrants that all take half the width and half the height
quadrant_children_halves(z) ==
    LET half_w == z.width \div 2
        half_h == z.height \div 2
    IN  << Zone(z.x, z.y, half_w, half_h, z.depth + 1),
           Zone(z.x + half_w, z.y, half_w, half_h, z.depth + 1),
           Zone(z.x, z.y + half_h, half_w, half_h, z.depth + 1),
           Zone(z.x + half_w, z.y + half_h, half_w, half_h, z.depth + 1) >>

\* the children ZoneLevelGenerator._subdivide_quadrants creates
quadrant_children(z) ==
    LET mid_x == z.x + z.width \div 2
        mid_y == z.y + z.height \div 2
    IN  << Zone(z.x, z.y, mid_x - z.x, mid_y - z.y, z.depth + 1),
           Zone(mid_x, z.y, z.x + z.width - mid_x, mid_y - z.y, z.depth + 1),
           Zone(z.x, mid_y, mid_x - z.x, z.y + z.height - mid_y, z.depth + 1),
           Zone(mid_x, mid_y, z.x + z.width - mid_x, z.y + z.height - mid_y,
                z.depth + 1) >>

\* a subdivision that splits every zone horizontally, whatever its depth
zone_children_horizontal(z) == horizontal_children(z)

\* the subdivision ZoneLevelGenerator._subdivide_zone picks for a zone
zone_children(z) ==
    LET subdivision_prime == primes[(z.depth % Len(primes)) + 1] IN
    IF subdivision_prime % 4 = 1 THEN horizontal_children(z)
    ELSE IF subdivision_prime % 4 = 3 THEN vertical_children(z)
    ELSE quadrant_children(z)

RECURSIVE leaf_zones(_, _)
\* the zones without children of the tree _subdivide_zone builds below z, in
\* the order the recursive walks of the shape creators visit them
leaf_zones(z, max_depth) ==
    IF z.depth >= max_depth THEN <<z>>
    ELSE LET ch == zone_children(z) IN
         Concat([k \in 1..Len(ch) |-> leaf_zones(ch[k], max_depth)])

\* ZoneLevelGenerator._get_zone_color_palette
zone_color_palette(depth) ==
    << <<"RED", "ORANGE", "YELLOW">>,
       <<"BLUE", "AURORA_MINT", "PURPLE">>,
       <<"GREEN", "FOREST_LIGHT_GREEN", "FOREST_GREEN">>,
       <<"AURORA_PINK", "SUNSET_CORAL", "SUNSET_YELLOW">> >>[(depth % 4) + 1]

\* create_static_in_zone for one leaf: no shape when the depth's prime is a
\* multiple of 7, else 1 + prime % 2 StaticShapes of two shells
static_shapes_in_zone(z) ==
    LET p == primes[(z.depth % Len(primes)) + 1]
        zone_colors == zone_color_palette(z.depth)
    IN  IF p % 7 = 0 THEN <<>>
        ELSE [i \in 1..(1 + (p % 2)) |->
                StaticShape(0, [k \in 1..2 |->
                    <<zone_colors[((k - 1) % Len(zone_colors)) + 1],
                      prime_size - (k - 1) * 8>>])]

\* ShapeFactory.create_random_shape: the creator (kind) and the size are
\* drawn at random; a Rectangle keeps Shape.__init__'s default size of 30
\* and takes the drawn number for its width and its height
create_random_shape(color, kind, size) ==
    IF kind = "Rectangle" THEN Rectangle(0, color, size, size)
    ELSE Shape(0, kind, color, size)

\* the smaller of two sizes (min)
Min(a, b) == IF a < b THEN a ELSE b

\* create_movable_in_zone for one leaf: 2 + depth % 4 shapes; shape i (from
\* 0) is a NestedShape when primes[depth + i] is a multiple of 5, else a
\* random plain shape of the palette color i % 3.  ShapeFactory draws the
\* kind and the size at random: kind and size are inputs.
movable_shapes_in_zone(z, kind, size) ==
    [n \in 1..(2 + (z.depth % 4)) |->
        LET i == n - 1
            prime_idx == (z.depth + i) % Len(primes)
            zone_colors == zone_color_palette(z.depth)
            base_size == Min(prime_size, 35)
        IN  IF primes[prime_idx + 1] % 5 = 0
            THEN NestedShape(0, [j \in 1..(2 + (prime_idx % 3)) |->
                    <<zone_colors[((j - 1) % Len(zone_colors)) + 1],
                      base_size - (j - 1) * 6>>])
            ELSE create_random_shape(zone_colors[(i % 3) + 1], kind, size)]

\* the colors of a shape's shells, or its color when it has no shells
shell_or_shape_colors(s) ==
    IF IsNestedShape(s) THEN [k \in 1..Len(s.shells) |-> s.shells[k][1]]
    ELSE <<s.color>>

RECURSIVE FirstSeen(_, _)
\* list(color_counts.keys()): the colors in order of first appearance
FirstSeen(cs, seen) ==
    IF cs = <<>> THEN <<>>
    ELSE IF Head(cs) \in seen THEN FirstSeen(Tail(cs), seen)
    ELSE <<Head(cs)>> \o FirstSeen(Tail(cs), seen \cup {Head(cs)})

\* ZoneLevelGenerator._select_target_color_with_primes
select_target_color_with_primes(shps) ==
    LET available_colors ==
            FirstSeen(Concat([i \in 1..Len(shps) |-> shell_or_shape_colors(shps[i])]), {})
    IN  IF Len(available_colors) > 0
        THEN available_colors[(fibonacci_primes[1] % Len(available_colors)) + 1]
        ELSE "RED"

\* ZoneLevelGenerator.create_zone_based_level: static shapes of every leaf
\* first, then the movable shapes of every leaf
create_zone_based_level(kind, size) ==
    LET root_zone == Zone(ZoneMargin, ZoneMargin, WINDOW_WIDTH - 2 * ZoneMargin,
                          WINDOW_HEIGHT - 2 * ZoneMargin, 0)
        leaves == leaf_zones(root_zone, ZoneMaxDepth)
        static_shapes == Concat([k \in 1..Len(leaves) |-> static_shapes_in_zone(leaves[k])])
        movable == Concat([k \in 1..Len(leaves) |->
                        movable_shapes_in_zone(leaves[k], kind, size)])
        all_shapes == WithIds(static_shapes \o movable)
    IN  [returned |-> TRUE, raised |-> None, shapes_null |-> FALSE,
         shapes |-> all_shapes,
         target_color |-> select_target_color_with_primes(all_shapes),
         algorithm |-> "recursive_zone_prime"]

\* ------------------------------------------------------------------ legacy generator
AVAILABLE_COLORS == <<"AURORA_MINT", "AURORA_PINK", "AURORA_GOLD">>
num_shapes == 8             \* GAME_SETTINGS['num_shapes']
max_level_attempts == 10    \* GAME_SETTINGS['max_level_attempts']
min_shape_size == 20        \* GAME_SETTINGS['min_shape_size']
max_shape_size == 40        \* GAME_SETTINGS['max_shape_size']

\* the names of GenerationStrategyFactory._strategies
StrategyNames == {"FRACTAL_SPIRAL", "FIBONACCI_SPIRAL", "ORGANIC_CLUSTERS",
                  "PERLIN_NOISE", "MANDELBROT_SET"}

\* two of the lists of config.AESTHETIC_COLOR_SETS: the one the game's own
\* colors come from and one that shares no color with it
AestheticColorSets == { <<"AURORA_MINT", "AURORA_PINK", "AURORA_GOLD">>,
                        <<"SUNSET_CORAL", "SUNSET_YELLOW", "SUNSET_PURPLE">> }

\* random.sample(nested_candidates, 2) over the ten shapes of an attempt: two
\* regular shapes, or both target shapes
ConvertPicks == { <<1, 2>>, <<9, 10>> }

\* the colors random.choice gives the num_shapes regular shapes, each
\* multiset of colors listed once (in the order of AVAILABLE_COLORS)
RegularColorings ==
    { Concat([k \in 1..3 |-> Repeat(AVAILABLE_COLORS[k], c[k])]) :
        c \in {d \in [1..3 -> 0..num_shapes] : d[1] + d[2] + d[3] = num_shapes} }

\* the shape list one attempt of create_level builds before the 20% draw:
\* a random shape per position, then the two target shapes
attempt_shapes(coloring, target, kind, size) ==
    WithIds([k \in 1..Len(coloring) |-> create_random_shape(coloring[k], kind, size)]
            \o << create_random_shape(target, kind, size),
                  create_random_shape(target, kind, size) >>)

\* the replacement LevelGenerator.add_nested_shapes builds for one shape:
\* shells of size base - 6i that stay above 5 are counted, and
\* create_nested_shape rebuilds that many shells from their colors
nested_replacement(original_shape, color_set, shell_draw) ==
    LET base_size == original_shape.size
        kept == SelectSeq([i \in 1..shell_draw |-> i - 1],
                          LAMBDA i : base_size - (i * 6) > 5)
        shell_colors == [k \in 1..Len(kept) |->
                            color_set[(kept[k] % Len(color_set)) + 1]]
    IN  create_nested_shape(original_shape.id, Len(kept), base_size, shell_colors)

\* LevelGenerator.add_nested_shapes with its random draws as arguments:
\* min(2, len // 3) shapes are converted and appended after the others
add_nested_shapes(shps, picks, color_set, shell_draw) ==
    IF Len(shps) < 2 THEN shps
    ELSE LET num_to_convert == Min(2, Len(shps) \div 3)
             shapes_to_convert == SubSeq(picks, 1, num_to_convert)
             remaining_shapes ==
                 SelectSeq(shps, LAMBDA s :
                     \A k \in 1..Len(shapes_to_convert) : s.id # shapes_to_convert[k])
         IN  remaining_shapes \o
             [k \in 1..Len(shapes_to_convert) |->
                 nested_replacement(shps[shapes_to_convert[k]], color_set, shell_draw)]

\* LevelValidator.validate_color_distribution: the issues it lists
validate_color_distribution(shps) ==
    LET cc == color_counts(shps)
        single_colors == {c \in DOMAIN cc : cc[c] = 1}
        total_shapes == SumOver(DOMAIN cc, cc)
    IN  (IF Cardinality(single_colors) > 2 THEN {"single"} ELSE {})
        \cup {c \in DOMAIN cc : cc[c] * 10 > total_shapes * 6}

\* the area check_shape_density adds for a plain shape, in hundredths:
\* width * height of a Rectangle, size * size * 3.14 of the others
plain_area(s) ==
    IF s.kind = "Rectangle" THEN s.width * s.height * 100
    ELSE s.size * s.size * 314

\* LevelValidator.check_shape_density: a NestedShape has no total_width, so
\* reading it raises AttributeError; otherwise the density is compared with
\* max_density = 0.3
check_shape_density(shps) ==
    IF \E k \in 1..Len(shps) : IsNestedShape(shps[k])
    THEN [raised |-> "AttributeError", issue |-> FALSE]
    ELSE [raised |-> None,
          issue |-> SumSeq([k \in 1..Len(shps) |-> plain_area(shps[k])]) * 10
                      > 3 * WINDOW_WIDTH * WINDOW_HEIGHT * 100]

\* LevelValidator.validate_level; what find_overlapping_shapes and
\* check_edge_distances find depends on the positions and is an input
validate_level(shps, target, overlapping, edge_violations) ==
    LET density == check_shape_density(shps) IN
    [raised |-> density.raised,
     is_valid |-> /\ density.raised = None
                  /\ is_level_winnable(shps, target)
                  /\ ~overlapping
                  /\ ~edge_violations
                  /\ validate_color_distribution(shps) = {}
                  /\ ~density.issue]

\* a pass of the loop that runs auto_fix_overlaps after every failed
\* validation, not only on the last attempt
legacy_attempt_fix_each(attempt, target, strategy, coloring, sd, nd, v) ==
    LET built == attempt_shapes(coloring, target, sd[1], sd[2])
        shps == IF nd.add_nested
                THEN add_nested_shapes(built, nd.picks, nd.color_set, nd.shell_draw)
                ELSE built
        first == validate_level(shps, target, v.overlapping, v.edge_violations)
        last_attempt == attempt = max_level_attempts - 1
    IN  IF first.raised # None
        THEN [pc |-> "raised",
              result |-> [returned |-> FALSE, raised |-> first.raised,
                          shapes_null |-> TRUE, shapes |-> <<>>,
                          target_color |-> None, algorithm |-> None],
              autofix |-> 0]
        ELSE IF first.is_valid
        THEN [pc |-> "returned",
              result |-> [returned |-> TRUE, raised |-> None, shapes_null |-> FALSE,
                          shapes |-> shps, target_color |-> target,
                          algorithm |-> strategy],
              autofix |-> 0]
        ELSE IF ~last_attempt
        THEN [pc |-> "legacy", result |-> NoResult, autofix |-> 1]
        ELSE [pc |-> "returned",
              result |-> [returned |-> TRUE, raised |-> None, shapes_null |-> TRUE,
                          shapes |-> <<>>, target_color |-> target,
                          algorithm |-> "legacy_generation"],
              autofix |-> 1]

\* LevelValidator.auto_fix_overlaps: max_attempts of the loop over positions
auto_fix_max_attempts == 50

\* the positions the loop of auto_fix_overlaps tries for one shape, given
\* the attempts (from 0) whose position overlaps no shape placed before: it
\* stops at the first valid one and after max_attempts at the latest
positions_tried(valid) ==
    LET hits == {a \in 0..(auto_fix_max_attempts - 1) : a \in valid} IN
    IF hits = {} THEN auto_fix_max_attempts
    ELSE (CHOOSE a \in hits : \A b \in hits : a <= b) + 1

\* one pass of the loop of create_level's legacy branch, its random draws
\* (sd: kind and size, nd: the 20% branch) and the geometry verdicts v as
\* arguments; v.fix_* are the verdicts on the list auto_fix_overlaps returns
legacy_attempt(attempt, target, strategy, coloring, sd, nd, v) ==
    LET built == attempt_shapes(coloring, target, sd[1], sd[2])
        shps == IF nd.add_nested
                THEN add_nested_shapes(built, nd.picks, nd.color_set, nd.shell_draw)
                ELSE built
        first == validate_level(shps, target, v.overlapping, v.edge_violations)
        last_attempt == attempt = max_level_attempts - 1
        second == validate_level(shps, target, v.fix_overlapping,
                                 v.fix_edge_violations)
        success == [returned |-> TRUE, raised |-> None, shapes_null |-> FALSE,
                    shapes |-> shps, target_color |-> target, algorithm |-> strategy]
        failure == [returned |-> TRUE, raised |-> None, shapes_null |-> TRUE,
                    shapes |-> <<>>, target_color |-> target,
                    algorithm |-> "legacy_generation"]
        error(e) == [returned |-> FALSE, raised |-> e, shapes_null |-> TRUE,
                     shapes |-> <<>>, target_color |-> None, algorithm |-> None]
    IN  IF first.raised # None
        THEN [pc |-> "raised", result |-> error(first.raised), autofix |-> 0]
        ELSE IF first.is_valid
        THEN [pc |-> "returned", result |-> success, autofix |-> 0]
        ELSE IF ~last_attempt
        THEN [pc |-> "legacy", result |-> NoResult, autofix |-> 0]
        ELSE IF second.raised # None
        THEN [pc |-> "raised", result |-> error(second.raised), autofix |-> 1]
        ELSE IF second.is_valid
        THEN [pc |-> "returned", result |-> success, autofix |-> 1]
        ELSE [pc |-> "returned", result |-> failure, autofix |-> 1]

\* the (kind, size) pairs the shapes of an attempt are created with
ShapeDraws == { <<"Circle", min_shape_size>>, <<"Square", max_shape_size>>,
                <<"Rectangle", min_shape_size>> }

\* create_level, use_zone_generation drawn True: the zone generator's
\* result is returned
CreateLevelZone ==
    /\ gen_pc = "idle"
    /\ \E sd \in ShapeDraws :
         /\ gen_result' = create_zone_based_level(sd[1], sd[2])
         /\ gen_pc' = "returned"
    /\ UNCHANGED <<gen_attempt, gen_target, gen_strategy, gen_autofix>>
    /\ UNCHANGED gameVars
    /\ UNCHANGED <<bounced, levelVars>>

\* create_level, use_zone_generation drawn False: the target color and the
\* strategy are chosen and the loop starts
CreateLevelLegacy ==
    /\ gen_pc = "idle"
    /\ \E target \in Range(AVAILABLE_COLORS), strategy \in StrategyNames :
         /\ gen_target' = target
         /\ gen_strategy' = strategy
    /\ gen_pc' = "legacy"
    /\ gen_attempt' = 0
    /\ UNCHANGED <<gen_result, gen_autofix>>
    /\ UNCHANGED gameVars
    /\ UNCHANGED <<bounced, levelVars>>

\* the draws of the 20% branch: not taken, or taken with the picks, the
\* color set and the randint(2, 4) of add_nested_shapes
NestedDraws ==
    { [add_nested |-> FALSE, picks |-> <<1, 2>>, color_set |-> AVAILABLE_COLORS,
       shell_draw |-> 2] }
    \cup { [add_nested |-> TRUE, picks |-> p, color_set |-> cs, shell_draw |-> sd] :
             p \in ConvertPicks, cs \in AestheticColorSets, sd \in {2, 4} }

\* what the geometry checks of validate_level find, before and after
\* auto_fix_overlaps.  auto_fix_overlaps only moves a shape to a point at
\* least 30 from every edge, so it creates no edge violation; the second
\* verdicts are read on the last attempt only.  A list with converted
\* shapes is taken with positions that raise no geometry issue.
GeometryVerdicts(last_attempt, add_nested) ==
    { v \in [overlapping : BOOLEAN, edge_violations : BOOLEAN,
             fix_overlapping : BOOLEAN, fix_edge_violations : BOOLEAN] :
        /\ v.fix_edge_violations => v.edge_violations
        /\ ~last_attempt => (~v.fix_overlapping /\ ~v.fix_edge_violations)
        /\ add_nested => (~v.overlapping /\ ~v.edge_violations) }

\* one pass of the legacy loop
LegacyAttempt ==
    /\ gen_pc = "legacy"
    /\ gen_attempt < max_level_attempts
    /\ \E coloring \in RegularColorings, sd \in ShapeDraws, nd \in NestedDraws :
       \E v \in GeometryVerdicts(gen_attempt = max_level_attempts - 1,
                                 nd.add_nested) :
         LET out == legacy_attempt(gen_attempt, gen_target, gen_strategy,
                                   coloring, sd, nd, v)
         IN  /\ gen_pc' = out.pc
             /\ gen_result' = out.result
             /\ gen_autofix' = gen_autofix + out.autofix
             /\ gen_attempt' = IF out.pc = "legacy" THEN gen_attempt + 1
                               ELSE gen_attempt
    /\ UNCHANGED <<gen_target, gen_strategy>>
    /\ UNCHANGED gameVars
    /\ UNCHANGED <<bounced, levelVars>>

\* the state before the first create_level call of a Game
InitGen ==
    /\ shapes = <<>>
    /\ target_color = None
    /\ last_merged_color = None
    /\ level_complete = FALSE
    /\ show_impossible_popup = FALSE
    /\ GenIdle
    /\ LevelIdle

NextGen == CreateLevelZone \/ CreateLevelLegacy \/ LegacyAttempt

SpecGen == InitGen /\ [][NextGen]_vars

\* a step of a running create_level call: the call ends, or the loop moves
\* on to its next pass
CreateLevelAdvances ==
    /\ gen_pc \notin {"returned", "raised"}
    /\ gen_pc' \in {"legacy", "returned", "raised"}
    /\ gen_attempt' \in {gen_attempt, gen_attempt + 1}
    /\ <<gen_pc', gen_attempt'>> # <<gen_pc, gen_attempt>>

\* create_level is one uninterrupted call: nothing in it waits or blocks, so
\* while it has not returned or raised it keeps advancing
SpecGenLive ==
    InitGen /\ [][NextGen]_vars /\ WF_<<gen_pc, gen_attempt>>(CreateLevelAdvances)

Next == CheckCollisions \/ KeyEscape

Spec == Init /\ [][Next]_vars

SpecPlain == InitPlain /\ [][Next]_vars

\* ------------------------------------------------------------------ level data
MaxDataShapes == 2      \* longest shape list handed to LevelData directly

\* list(shape.color): the JSON list a color tuple is stored as
color_to_list(c) == <<"list", c>>

\* tuple(shape_dict['color']): the color tuple of a JSON list
list_to_color(l) == l[2]

\* the value standing for "no shape" where a call raised
NoShape == Shape(0, None, None, 0)

\* the value standing for "no descriptor" where shape_to_dict raised
NoDescriptor == [x |-> 0, y |-> 0, shape_type |-> None, color |-> <<>>,
                 size |-> 0, width |-> 0, height |-> 0]

\* LevelData.shape_to_dict: for a NestedShape (a StaticShape is one) it reads
\* shape.stack_pattern, which NestedShape does not define: AttributeError.
\* width and height are keys of a Rectangle's descriptor only (0: no key).
shape_to_dict(s) ==
    IF IsNestedShape(s)
    THEN [raised |-> "AttributeError", dict |-> NoDescriptor]
    ELSE [raised |-> None,
          dict |-> [x |-> s.x, y |-> s.y, shape_type |-> s.kind,
                    color |-> color_to_list(s.color), size |-> s.size,
                    width |-> s.width, height |-> s.height]]

\* LevelData.__init__: original_shapes is the list of descriptors
LevelData(level_id, shps, target) ==
    LET ds == [k \in 1..Len(shps) |-> shape_to_dict(shps[k])] IN
    IF \E k \in 1..Len(ds) : ds[k].raised # None
    THEN [raised |-> "AttributeError", level |-> NoLevelData]
    ELSE [raised |-> None,
          level |-> [loaded |-> TRUE, level_id |-> level_id,
                     original_shapes |-> [k \in 1..Len(ds) |-> ds[k].dict],
                     target_color |-> target]]

\* LevelData.to_dict as json.dump writes it to a file
to_dict(level) ==
    [exists |-> TRUE, level_id |-> level.level_id,
     target_color |-> color_to_list(level.target_color),
     original_shapes |-> level.original_shapes]

\* LevelData.from_dict on what json.load reads from a file
from_dict(data) ==
    [loaded |-> TRUE, level_id |-> data.level_id,
     original_shapes |-> data.original_shapes,
     target_color |-> list_to_color(data.target_color)]

\* the shape_type tags LevelData.dict_to_shape has a branch for
KnownTags == {"NestedShape", "Circle", "Square", "Triangle", "Rectangle"}

\* dict_to_shape guessing a Circle for a tag it does not know
dict_to_shape_lenient(d, id) ==
    IF d.shape_type = "NestedShape"
    THEN [raised |-> "KeyError", shape |-> NoShape]
    ELSE IF d.shape_type = "Rectangle"
    THEN [raised |-> None,
          shape |-> At(Rectangle(id, list_to_color(d.color), d.width, d.height),
                       d.x, d.y)]
    ELSE [raised |-> None,
          shape |-> At(Shape(id, "Circle", list_to_color(d.color), d.size),
                       d.x, d.y)]

\* LevelData.dict_to_shape, the new object getting identity id.  The
\* 'NestedShape' branch reads shape_dict['component_shapes'], a key no
\* descriptor of this program carries: KeyError.
dict_to_shape(d, id) ==
    IF d.shape_type = "NestedShape"
    THEN [raised |-> "KeyError", shape |-> NoShape]
    ELSE IF d.shape_type \in {"Circle", "Square", "Triangle"}
    THEN [raised |-> None,
          shape |-> At(Shape(id, d.shape_type, list_to_color(d.color), d.size),
                       d.x, d.y)]
    ELSE IF d.shape_type = "Rectangle"
    THEN [raised |-> None,
          shape |-> At(Rectangle(id, list_to_color(d.color), d.width, d.height),
                       d.x, d.y)]
    ELSE [raised |-> "ValueError", shape |-> NoShape]

\* identities for n new objects: none of them is an object still referenced
fresh_ids(used, n) ==
    SubSeq(SelectSeq([i \in 1..(n + Cardinality(used)) |-> i],
                     LAMBDA i : i \notin used), 1, n)

\* LevelData.get_fresh_shapes: the list comprehension over original_shapes;
\* the first descriptor that raises ends it and no list is returned
get_fresh_shapes(level, used) ==
    LET ids == fresh_ids(used, Len(level.original_shapes))
        rs == [k \in 1..Len(ids) |-> dict_to_shape(level.original_shapes[k], ids[k])]
        bad == {k \in 1..Len(rs) : rs[k].raised # None}
    IN  IF bad = {}
        THEN [raised |-> None, shapes |-> [k \in 1..Len(rs) |-> rs[k].shape]]
        ELSE [raised |-> rs[CHOOSE k \in bad : \A m \in bad : k <= m].raised,
              shapes |-> <<>>]

\* the identities of the objects of a list
Ids(shps) == {shps[k].id : k \in 1..Len(shps)}

\* the shapes a caller builds lists from, as tests/test_level_data.py does,
\* and a NestedShape and a StaticShape of the factory
DataUniverse ==
    { At(Shape(0, "Circle", "RED", 30), Px(100), Px(100)),
      At(Shape(0, "Square", "BLUE", 25), Px(200), Px(200)),
      At(Rectangle(0, "GREEN", 60, 40), Px(300), Px(300)),
      At(create_nested_shape(0, 2, 40, <<"RED", "BLUE">>), Px(150), Px(150)),
      At(create_static_shape(0, 2, 60, <<"BLUE", "GREEN">>), Px(250), Px(250)) }

\* the shape lists of at most n shapes of S, as lists of distinct objects
ListsOf(S, n) == UNION {{WithIds(l) : l \in [1..k -> S]} : k \in 0..n}

\* descriptors found in files written by other programs or versions
ForeignDescriptors ==
    { [NoDescriptor EXCEPT !.shape_type = tag, !.color = color_to_list("RED"),
                           !.size = 30, !.x = Px(100), !.y = Px(100)] :
        tag \in {"Circle", "Hexagon", "StaticShape", "NestedShape"} }

\* level files found on disk at start
ForeignFiles ==
    { [exists |-> TRUE, level_id |-> "b", target_color |-> color_to_list("RED"),
       original_shapes |-> ds] :
        ds \in UNION {[1..k -> ForeignDescriptors] : k \in 1..MaxDataShapes} }

\* a caller of the level_data API (tests/test_level_data.py) before its
\* first call; the Game is not running
InitData ==
    /\ shapes = <<>>
    /\ target_color = None
    /\ last_merged_color = None
    /\ level_complete = FALSE
    /\ show_impossible_popup = FALSE
    /\ GenIdle
    /\ bounced = <<>>
    /\ dragging_shape = 0
    /\ current_level_data = NoLevelData
    /\ level_files \in {[i \in FileNames |-> IF i = "b" THEN f ELSE NoFile] :
                          f \in {NoFile} \cup ForeignFiles}
    /\ call = NoCall

\* LevelData(level_id, shapes, target_color, algorithm) called directly, once,
\* as the setUp of tests/test_level_data.py does
BuildLevelData ==
    /\ call.op = None
    /\ \E id \in LevelIds, shps \in ListsOf(DataUniverse, MaxDataShapes) :
         LET r == LevelData(id, shps, "RED") IN
         call' = [op |-> "LevelData", raised |-> r.raised, arg |-> shps,
                  level |-> r.level, k |-> 0, value |-> <<>>]
    /\ UNCHANGED <<gameVars, genVars, bounced, dragging_shape,
                   current_level_data, level_files>>

\* LevelPersistence.save_level on the LevelData the caller holds
SaveLevel ==
    /\ call.level.loaded
    /\ level_files' = [level_files EXCEPT ![call.level.level_id] = to_dict(call.level)]
    /\ call' = [call EXCEPT !.op = "save_level", !.raised = None, !.k = 0,
                            !.value = <<>>]
    /\ UNCHANGED <<gameVars, genVars, bounced, dragging_shape, current_level_data>>

\* LevelPersistence.load_level(id): None when there is no file.  The list
\* the caller built stays in hand only when the file read is the one just
\* written from it.
LoadLevel ==
    /\ \E id \in LevelIds :
         call' = [op |-> "load_level", raised |-> None,
                  arg |-> IF call.op = "save_level" /\ call.level.level_id = id
                          THEN call.arg ELSE <<>>,
                  level |-> IF level_files[id].exists
                            THEN from_dict(level_files[id]) ELSE NoLevelData,
                  k |-> 0, value |-> <<>>]
    /\ UNCHANGED <<gameVars, genVars, bounced, dragging_shape,
                   current_level_data, level_files>>

\* get_fresh_shapes on the LevelData the caller holds
GetFreshShapes ==
    /\ call.level.loaded
    /\ LET r == get_fresh_shapes(call.level, Ids(call.arg)) IN
       call' = [call EXCEPT !.op = "get_fresh_shapes", !.raised = r.raised,
                            !.k = 0, !.value = r.shapes]
    /\ UNCHANGED <<gameVars, genVars, bounced, dragging_shape,
                   current_level_data, level_files>>

\* dict_to_shape on one descriptor of the LevelData the caller holds
DictToShape ==
    /\ call.level.loaded
    /\ \E k \in 1..Len(call.level.original_shapes) :
         LET r == dict_to_shape(call.level.original_shapes[k],
                                fresh_ids(Ids(call.arg), 1)[1])
         IN  call' = [call EXCEPT !.op = "dict_to_shape", !.raised = r.raised,
                          !.k = k,
                          !.value = IF r.raised = None THEN <<r.shape>> ELSE <<>>]
    /\ UNCHANGED <<gameVars, genVars, bounced, dragging_shape,
                   current_level_data, level_files>>

NextData == BuildLevelData \/ SaveLevel \/ LoadLevel \/ GetFreshShapes \/ DictToShape

SpecData == InitData /\ [][NextData]_vars

\* ------------------------------------------------------------------ level lifecycle
MaxLevelShapes == 2     \* longest shape list of a level the game is started with

\* where the k-th shape of a level is placed
SlotX(k) == Px(100 * k)
SlotY(k) == Px(100)

\* the points the pointer is pressed at and moved to: the first two slots
PointerPoints == {<<SlotX(1), SlotY(1)>>, <<SlotX(2), SlotY(2)>>}

\* the plain shapes the levels of this section are made of
LevelUniverse == {Shape(0, "Circle", "RED", 30), Rectangle(0, "BLUE", 60, 40)}

\* the shape lists of a level: each multiset of at most MaxLevelShapes
\* shapes once, the k-th shape at its slot.  create_level returns lists of 10
\* or 80 plain shapes; the handlers of this section do not depend on the
\* length, and these short lists stand for them.
LevelLists ==
    UNION {{WithIds([k \in 1..Len(m) |-> At(m[k], SlotX(k), SlotY(k))]) :
              m \in Multisets(LevelUniverse, n)} : n \in 0..MaxLevelShapes}

\* what LevelGenerator.create_level hands to Game.create_new_level: a shape
\* list with its target color, the sentinel (None, target, name), or an
\* exception
NewLevelResults ==
    {[returned |-> TRUE, raised |-> None, shapes_null |-> FALSE, shapes |-> l,
      target_color |-> c, algorithm |-> "recursive_zone_prime"] :
        l \in LevelLists \ {<<>>}, c \in {"RED"}}
    \cup {[returned |-> TRUE, raised |-> None, shapes_null |-> TRUE,
           shapes |-> <<>>, target_color |-> "RED",
           algorithm |-> "legacy_generation"],
          [returned |-> FALSE, raised |-> "AttributeError", shapes_null |-> TRUE,
           shapes |-> <<>>, target_color |-> None, algorithm |-> None]}

\* The fields of Game the level handlers read and write, as one record;
\* raised is the exception that left the handler (None: it returned)
LevelGame ==
    [shapes |-> shapes, target_color |-> target_color,
     last_merged_color |-> last_merged_color, level_complete |-> level_complete,
     show_impossible_popup |-> show_impossible_popup,
     current_level_data |-> current_level_data, raised |-> None]

\* the objects a Game still references: its shapes and the dragged shape
Referenced == Ids(shapes) \cup {dragging_shape}

\* Game.load_level_from_data: current_level_data is assigned first, then
\* get_fresh_shapes runs; if it raises, nothing else is assigned
load_level_from_data(lg, level_data, used) ==
    LET r == get_fresh_shapes(level_data, used) IN
    IF r.raised = None
    THEN [lg EXCEPT !.current_level_data = level_data,
                    !.shapes = r.shapes,
                    !.target_color = level_data.target_color,
                    !.show_impossible_popup = FALSE,
                    !.level_complete = FALSE,
                    !.last_merged_color = None]
    ELSE [lg EXCEPT !.current_level_data = level_data, !.raised = r.raised]

\* reset_to_original_level that leaves the live list as it is
reset_to_original_level_keep(lg, used) ==
    IF lg.current_level_data.loaded
    THEN [lg EXCEPT !.show_impossible_popup = FALSE, !.level_complete = FALSE,
                    !.last_merged_color = None]
    ELSE lg

\* Game.reset_to_original_level
reset_to_original_level(lg, used) ==
    IF lg.current_level_data.loaded
    THEN load_level_from_data(lg, lg.current_level_data, used)
    ELSE lg

\* Game.create_new_level without its two saves: result is what create_level
\* returned or raised, level_id the uuid of the new level
create_new_level(lg, result, level_id, used) ==
    IF result.raised # None THEN [lg EXCEPT !.raised = result.raised]
    ELSE IF result.shapes_null THEN [lg EXCEPT !.show_impossible_popup = TRUE]
    ELSE LET built == LevelData(level_id, result.shapes, result.target_color) IN
         IF built.raised # None THEN [lg EXCEPT !.raised = built.raised]
         ELSE load_level_from_data(lg, built.level, used)

\* save_level and save_current_level of Game.create_new_level: both files
\* are written before load_level_from_data runs
create_new_level_files(files, result, level_id) ==
    LET built == LevelData(level_id, result.shapes, result.target_color) IN
    IF result.raised = None /\ ~result.shapes_null /\ built.raised = None
    THEN [files EXCEPT ![level_id] = to_dict(built.level),
                       !["current"] = to_dict(built.level)]
    ELSE files

\* the Game fields after a level handler; an exception that left the
\* handler is kept in call
SetLevelGame(lg, op) ==
    /\ shapes' = lg.shapes
    /\ target_color' = lg.target_color
    /\ last_merged_color' = lg.last_merged_color
    /\ level_complete' = lg.level_complete
    /\ show_impossible_popup' = lg.show_impossible_popup
    /\ current_level_data' = lg.current_level_data
    /\ call' = IF lg.raised = None THEN call
               ELSE [NoCall EXCEPT !.op = op, !.raised = lg.raised]

\* ColorTapApp.load_saved_level: a new Game, then load_level_from_data of a
\* level read from its file
LoadSavedLevel ==
    /\ \E id \in LevelIds :
         /\ level_files[id].exists
         /\ SetLevelGame(load_level_from_data(LevelGame, from_dict(level_files[id]),
                                              Referenced), "load_saved_level")
    /\ dragging_shape' = 0
    /\ bounced' = <<>>
    /\ UNCHANGED <<genVars, level_files>>

\* K_r: Game.reset_to_original_level
ResetToOriginalLevel ==
    /\ SetLevelGame(reset_to_original_level(LevelGame, Referenced),
                    "reset_to_original_level")
    /\ UNCHANGED <<genVars, bounced, dragging_shape, level_files>>

\* the uuid a new level is saved under
NewLevelIds == {"a"}

\* K_n: Game.create_new_level
CreateNewLevel ==
    /\ \E result \in NewLevelResults, level_id \in NewLevelIds :
         /\ SetLevelGame(create_new_level(LevelGame, result, level_id, Referenced),
                         "create_new_level")
         /\ level_files' = create_new_level_files(level_files, result, level_id)
    /\ UNCHANGED <<genVars, bounced, dragging_shape>>

\* Game.handle_mouse_down(pos): the first shape of the list that contains
\* pos becomes dragging_shape, is marked, remembers the offset of pos from
\* its center and is stopped; nothing is done to any other shape
handle_mouse_down(shps, dragging, pos) ==
    LET hit == {k \in 1..Len(shps) : contains_point(shps[k], pos[1], pos[2])} IN
    IF hit = {} THEN [shapes |-> shps, dragging_shape |-> dragging]
    ELSE LET first == CHOOSE k \in hit : \A m \in hit : k <= m IN
         [shapes |-> [shps EXCEPT ![first].being_dragged = TRUE,
                                  ![first].drag_offset_x = pos[1] - shps[first].x,
                                  ![first].drag_offset_y = pos[2] - shps[first].y,
                                  ![first].velocity_x = 0,
                                  ![first].velocity_y = 0],
          dragging_shape |-> shps[first].id]

\* Game.handle_mouse_up: the dragged object is unmarked and let go; it may
\* be an object that is no longer in the list
handle_mouse_up(shps, dragging) ==
    [shapes |-> [k \in 1..Len(shps) |->
                   IF dragging # 0 /\ shps[k].id = dragging
                   THEN [shps[k] EXCEPT !.being_dragged = FALSE] ELSE shps[k]],
     dragging_shape |-> 0]

\* Game.handle_mouse_motion(pos): the dragged object moves to pos less its
\* drag offset; it may be an object that is no longer in the list
handle_mouse_motion(shps, dragging, pos) ==
    [k \in 1..Len(shps) |->
        IF dragging # 0 /\ shps[k].id = dragging
        THEN At(shps[k], pos[1] - shps[k].drag_offset_x,
                         pos[2] - shps[k].drag_offset_y)
        ELSE shps[k]]

\* MOUSEBUTTONDOWN at one of the points
HandleMouseDown ==
    /\ \E pos \in PointerPoints :
         LET r == handle_mouse_down(shapes, dragging_shape, pos) IN
         /\ shapes' = r.shapes
         /\ dragging_shape' = r.dragging_shape
    /\ UNCHANGED <<target_color, last_merged_color, level_complete,
                   show_impossible_popup, genVars, bounced,
                   current_level_data, level_files, call>>

\* MOUSEBUTTONUP
HandleMouseUp ==
    /\ LET r == handle_mouse_up(shapes, dragging_shape) IN
         /\ shapes' = r.shapes
         /\ dragging_shape' = r.dragging_shape
    /\ UNCHANGED <<target_color, last_merged_color, level_complete,
                   show_impossible_popup, genVars, bounced,
                   current_level_data, level_files, call>>

\* MOUSEMOTION to one of the points
HandleMouseMotion ==
    /\ \E pos \in PointerPoints :
         shapes' = handle_mouse_motion(shapes, dragging_shape, pos)
    /\ UNCHANGED <<target_color, last_merged_color, level_complete,
                   show_impossible_popup, genVars, bounced, dragging_shape,
                   current_level_data, level_files, call>>

\* Game.__init__ with no level file on disk
InitLevel ==
    /\ shapes = <<>>
    /\ target_color = "AURORA_MINT"
    /\ last_merged_color = None
    /\ level_complete = FALSE
    /\ show_impossible_popup = FALSE
    /\ GenIdle
    /\ LevelIdle

NextLevel ==
    \/ LoadSavedLevel
    \/ ResetToOriginalLevel
    \/ CreateNewLevel
    \/ HandleMouseDown
    \/ HandleMouseUp
    \/ HandleMouseMotion
    \/ CheckCollisions
    \/ KeyEscape

SpecLevel == InitLevel /\ [][NextLevel]_vars

\* ------------------------------------------------------------ one frame
\* the longest shape list of a frame
MaxFrameShapes == 4

\* the shapes of a frame: two circles of different colors and a NestedShape
\* of two shells, RED outside
FrameUniverse ==
    {Shape(0, "Circle", "RED", 30), Shape(0, "Circle", "BLUE", 30),
     create_nested_shape(0, 2, 30, <<"RED", "BLUE", "GREEN">>)}

\* Game.__init__, then shapes, target_color and last_merged_color assigned
\* the way tests/test_game_logic.py sets a game up before check_collisions.
\* The order of the list is kept: it decides the scan order of the pairs.
InitFrame ==
    /\ shapes \in ListsOf(FrameUniverse, MaxFrameShapes)
    /\ target_color \in {"RED", "BLUE"}
    /\ last_merged_color \in {None, "RED", "BLUE"}
    /\ level_complete = FALSE
    /\ show_impossible_popup = FALSE
    /\ GenIdle
    /\ LevelIdle

\* one frame's Game.check_collisions, any set of pairs colliding
CheckCollisionsAny == CheckCollisionsWith(SUBSET ScanPairs(Len(shapes)))

NextFrame == CheckCollisionsAny \/ KeyEscape

SpecFrame == InitFrame /\ [][NextFrame]_vars

\* ------------------------------------------------------------- one shape
\* the shapes remove_outer_shell is called on: NestedShapes and StaticShapes
\* of 1..MaxShells shells
ShellUniverse ==
    {create_nested_shape(1, n, b, p) :
        n \in 1..MaxShells, b \in {30, 40}, p \in Palettes}
    \cup {create_static_shape(1, n, 60, p) : n \in 1..MaxShells, p \in Palettes}

\* one shape object held by a caller, as NestedShapeFactory hands it out
InitShell ==
    /\ shapes \in {<<s>> : s \in ShellUniverse}
    /\ target_color = "RED"
    /\ last_merged_color = None
    /\ level_complete = FALSE
    /\ show_impossible_popup = FALSE
    /\ GenIdle
    /\ LevelIdle

\* shape.remove_outer_shell() on the object: call keeps the shape as it was
\* (arg) and the returned flag (value)
RemoveOuterShell ==
    /\ Len(shapes) = 1
    /\ LET r == remove_outer_shell(shapes[1]) IN
       /\ shapes' = <<r.shape>>
       /\ call' = [NoCall EXCEPT !.op = "remove_outer_shell",
                                 !.arg = <<shapes[1]>>,
                                 !.value = <<r.ret>>]
    /\ UNCHANGED <<target_color, last_merged_color, level_complete,
                   show_impossible_popup, bounced>>
    /\ UNCHANGED genVars
    /\ UNCHANGED <<dragging_shape, current_level_data, level_files>>

NextShell == RemoveOuterShell

SpecShell == InitShell /\ [][NextShell]_vars

\* ------------------------------------------------------------------ zone trees
MaxZoneSide == 6        \* longest side of the root zones subdivided below

RECURSIVE tree_zones(_, _)
\* every zone of the tree ZoneLevelGenerator._subdivide_zone builds below z,
\* a zone before the zones of its children
tree_zones(z, max_depth) ==
    IF z.depth >= max_depth THEN <<z>>
    ELSE LET ch == zone_children(z) IN
         <<z>> \o Concat([k \in 1..Len(ch) |-> tree_zones(ch[k], max_depth)])

\* the root zones handed to _subdivide_zone: depth 0, at the window corner
\* or at the inset of create_zone_based_level
RootZones ==
    {Zone(x, y, w, h, 0) : x \in {0, ZoneMargin}, y \in {0, ZoneMargin},
                           w \in 1..MaxZoneSide, h \in 1..MaxZoneSide}

\* a root zone and a max_depth, before _subdivide_zone is called on them
InitZone ==
    /\ shapes = <<>>
    /\ target_color = None
    /\ last_merged_color = None
    /\ level_complete = FALSE
    /\ show_impossible_popup = FALSE
    /\ GenIdle
    /\ bounced = <<>>
    /\ dragging_shape = 0
    /\ current_level_data = NoLevelData
    /\ level_files = [i \in FileNames |-> NoFile]
    /\ \E z \in RootZones, max_depth \in 0..ZoneMaxDepth :
          call = [NoCall EXCEPT !.arg = <<z, max_depth>>]

\* _subdivide_zone(zone, max_depth): call keeps the root and max_depth (arg)
\* and the zones of the tree (value)
SubdivideZone ==
    /\ call.op = None
    /\ call' = [call EXCEPT !.op = "_subdivide_zone",
                            !.value = tree_zones(call.arg[1], call.arg[2])]
    /\ UNCHANGED gameVars
    /\ UNCHANGED genVars
    /\ UNCHANGED <<bounced, dragging_shape, current_level_data, level_files>>

NextZone == SubdivideZone

SpecZone == InitZone /\ [][NextZone]_vars

\* ------------------------------------------------------------------ motion
\* a * b / Q rounded toward zero, for |b| of the order of Q, computed in
\* two parts so that no product leaves the integers of the checker
MulQ(a, b) ==
    LET m == Abs(a)
        n == Abs(b)
        p == (m \div Q) * n + ((m % Q) * n) \div Q
    IN  IF (a < 0) = (b < 0) THEN p ELSE 0 - p

\* a / d in units of 1/Q for |a| <= d, rounded toward zero, by long
\* division two decimal digits at a time
DivQ(a, d) ==
    LET m == Abs(a)
        r1 == m % d
        d1 == (r1 * 100) \div d
        r2 == (r1 * 100) % d
        d2 == (r2 * 100) \div d
        p == (m \div d) * Q + d1 * 100 + d2
    IN  IF a < 0 THEN 0 - p ELSE p

\* the larger of two numbers
MaxOf(a, b) == IF a > b THEN a ELSE b

\* 100 * pulse_scale = 100 * (1 + 0.08 * sin(beat_time * 2 * pi)) at the
\* quarter beats 0, 1/4, 1/2 and 3/4
PulsePercent == <<100, 108, 100, 92>>

\* the beat phases update is called with, in quarter beats
BeatPhases == {0, 1, 3}

\* int(base_size * pulse_scale)
pulse_size(base_size, beat) == (base_size * PulsePercent[beat + 1]) \div 100

\* the momentum after the inertia and viscosity lines: 0.85 of the old
\* momentum and 0.15 of the velocity, times 1 - 0.02 * mass, mass being
\* base_size / 20
next_momentum(momentum, velocity, base_size) ==
    Trunc(Trunc(momentum * 85 + velocity * 15, 100) * (1000 - base_size), 1000)

\* the velocity after friction and the random perturbation: 0.94 of the
\* old one, plus (random() - 0.5) * 0.005 / mass when either component is
\* above 0.1 after friction; quarter is (random() - 0.5) in quarters
settled_velocity(velocity, other_velocity, base_size, quarter) ==
    LET v == Trunc(velocity * 94, 100)
        w == Trunc(other_velocity * 94, 100)
    IN  IF Abs(v) * 10 > Q \/ Abs(w) * 10 > Q
        THEN v + Trunc(quarter * (Q \div (10 * base_size)), 4)
        ELSE v

\* a reflection that keeps the value as it is
no_reflection(value, base_size) == value

\* -value * bounce_dampening, bounce_dampening = 0.6 + 0.2 / mass
reflected(value, base_size) ==
    0 - Trunc(value * (6 * base_size + 40), 10 * base_size)

\* the test of the boundary branch on one axis
at_boundary(position, max_dimension, extent) ==
    \/ position - Px(max_dimension) <= 0
    \/ position + Px(max_dimension) >= Px(extent)

\* max(max_dimension, min(extent - max_dimension, position))
clamped(position, max_dimension, extent) ==
    MaxOf(Px(max_dimension), Min(Px(extent) - Px(max_dimension), position))

\* Shape.update(beat_time): draw holds the two random() values of the
\* perturbation as quarters of (random() - 0.5)
update(s, beat, draw) ==
    LET mx == next_momentum(s.momentum_x, s.velocity_x, s.base_size)
        my == next_momentum(s.momentum_y, s.velocity_y, s.base_size)
        x1 == s.x + mx
        y1 == s.y + my
        vx == settled_velocity(s.velocity_x, s.velocity_y, s.base_size, draw[1])
        vy == settled_velocity(s.velocity_y, s.velocity_x, s.base_size, draw[2])
        max_dimension == get_max_dimension(s)
        hit_x == at_boundary(x1, max_dimension, WINDOW_WIDTH)
        hit_y == at_boundary(y1, max_dimension, WINDOW_HEIGHT)
        moved == IF s.being_dragged
                 THEN [s EXCEPT !.momentum_x = s.velocity_x,
                                !.momentum_y = s.velocity_y]
                 ELSE [s EXCEPT
                         !.x = IF hit_x THEN clamped(x1, max_dimension, WINDOW_WIDTH)
                               ELSE x1,
                         !.y = IF hit_y THEN clamped(y1, max_dimension, WINDOW_HEIGHT)
                               ELSE y1,
                         !.velocity_x = IF hit_x THEN reflected(vx, s.base_size) ELSE vx,
                         !.velocity_y = IF hit_y THEN reflected(vy, s.base_size) ELSE vy,
                         !.momentum_x = IF hit_x THEN reflected(mx, s.base_size) ELSE mx,
                         !.momentum_y = IF hit_y THEN reflected(my, s.base_size) ELSE my]
    IN  [moved EXCEPT !.size = pulse_size(s.base_size, beat)]

\* shape.update of the game loop: StaticShape.update does nothing
update_shape(s, beat, draw) ==
    IF s.kind = "StaticShape" THEN s ELSE update(s, beat, draw)

\* a bounce_off that leaves other_shape as it is
bounce_off_self_only(s, other_shape) ==
    <<[s EXCEPT !.velocity_x = 0 - s.velocity_x,
                !.velocity_y = 0 - s.velocity_y], other_shape>>

\* the collision vector of bounce_off after its normalisation, for shapes
\* whose centers differ
collision_normal(s, other_shape) ==
    LET dx == s.x - other_shape.x
        dy == s.y - other_shape.y
        distance == Hypot(dx, dy)
    IN  <<DivQ(dx, distance), DivQ(dy, distance)>>

\* the dot product of the relative velocity and the collision normal
vel_along_normal(s, other_shape) ==
    LET normal == collision_normal(s, other_shape) IN
    MulQ(s.velocity_x - other_shape.velocity_x, normal[1])
        + MulQ(s.velocity_y - other_shape.velocity_y, normal[2])

\* the overlap of bounce_off: the two collision radii less the distance
overlap_of(s, other_shape) ==
    Px(get_collision_radius(s) + get_collision_radius(other_shape))
        - get_distance_to(s, other_shape)

\* Shape.bounce_off(other_shape): the two shapes afterwards; zen_bounce_force
\* times the dampening factor is 3.5 * 0.6 = 2.1, separation_force is 0.5
bounce_off(s, other_shape) ==
    IF get_distance_to(s, other_shape) = 0 THEN <<s, other_shape>>
    ELSE
    LET normal == collision_normal(s, other_shape)
        impulse == Trunc(vel_along_normal(s, other_shape) * 21, 10)
        kick_x == Trunc(MulQ(impulse, normal[1]), 2)
        kick_y == Trunc(MulQ(impulse, normal[2]), 2)
        overlap == overlap_of(s, other_shape)
        push_x == IF overlap > 0 THEN Trunc(MulQ(overlap, normal[1]), 2) ELSE 0
        push_y == IF overlap > 0 THEN Trunc(MulQ(overlap, normal[2]), 2) ELSE 0
    IN  IF vel_along_normal(s, other_shape) > 0 THEN <<s, other_shape>>
        ELSE << [s EXCEPT !.velocity_x = @ - kick_x, !.velocity_y = @ - kick_y,
                          !.x = @ + push_x, !.y = @ + push_y],
                [other_shape EXCEPT !.velocity_x = @ + kick_x,
                                    !.velocity_y = @ + kick_y,
                                    !.x = @ - push_x, !.y = @ - push_y] >>

MaxMotionSteps == 4     \* calls made on the shapes of one motion run

\* the shapes the calls are made on: two circles and a free-standing
\* StaticShape
MotionBodies ==
    <<Shape(0, "Circle", "RED", 20), Shape(0, "Circle", "BLUE", 30),
      StaticShape(0, <<<<"GREEN", 30>>>>)>>

\* the shape with the velocity its caller gave it, as
\* tests/test_shape_behaviors.py does; a StaticShape is left at rest
Moving(s, velocity) ==
    IF s.kind = "StaticShape" THEN s
    ELSE [s EXCEPT !.velocity_x = velocity[1], !.velocity_y = velocity[2]]

\* the velocities given to the first shape of a list
MotionVelocities == {<<0, 0>>, <<Px(5), 0>>, <<0 - Px(5), 0 - Px(1)>>}

\* where a lone shape is: away from the walls, or touching the left one or
\* the top one
LonePlaces == {<<Px(100), Px(100)>>, <<Px(20), Px(100)>>, <<Px(100), Px(20)>>}

\* where the second shape of a pair is, the first being at (100, 100): 40
\* pixels away, overlapping it, or 60 pixels away, clear of it
PairPlaces == {<<Px(124), Px(132)>>, <<Px(160), Px(100)>>}

\* the shape lists of a motion run
MotionLists ==
    {WithIds(<<At(Moving(MotionBodies[b], v), p[1], p[2])>>) :
        b \in {1, 3}, v \in MotionVelocities, p \in LonePlaces}
    \cup
    {WithIds(<<At(Moving(MotionBodies[b], v), Px(100), Px(100)),
               At(MotionBodies[(b % 3) + 1], p[1], p[2])>>) :
        b \in 1..3, v \in MotionVelocities, p \in PairPlaces}

\* the points of a motion run the pointer is pressed at and moved to
MotionPoints == {<<Px(100), Px(100)>>, <<Px(5), Px(100)>>}

\* the pairs of random() values of one update, as quarters of
\* (random() - 0.5)
PerturbationDraws == {<<0, 0>>, <<0 - 2, 1>>}

InitMotion ==
    /\ shapes \in MotionLists
    /\ target_color = "AURORA_MINT"
    /\ last_merged_color = None
    /\ level_complete = FALSE
    /\ show_impossible_popup = FALSE
    /\ GenIdle
    /\ LevelIdle

\* what a call of a motion run leaves alone
MotionRest ==
    UNCHANGED <<target_color, last_merged_color, level_complete,
                show_impossible_popup, genVars, bounced, current_level_data,
                level_files>>

\* the call is recorded with its arguments
MotionCall(op, arg) ==
    /\ call.k < MaxMotionSteps
    /\ call' = [NoCall EXCEPT !.op = op, !.arg = arg, !.k = call.k + 1]

\* shape.update(beat_time) on one shape of the list
Update ==
    /\ \E k \in 1..Len(shapes), beat \in BeatPhases, draw \in PerturbationDraws :
         /\ MotionCall("update", <<k, beat, draw>>)
         /\ shapes' = [shapes EXCEPT ![k] = update_shape(shapes[k], beat, draw)]
    /\ UNCHANGED dragging_shape
    /\ MotionRest

\* shapes[i].bounce_off(shapes[j])
BounceOff ==
    /\ \E i \in 1..Len(shapes), j \in 1..Len(shapes) :
         /\ i # j
         /\ MotionCall("bounce_off", <<i, j>>)
         /\ LET r == bounce_off(shapes[i], shapes[j]) IN
            shapes' = [shapes EXCEPT ![i] = r[1], ![j] = r[2]]
    /\ UNCHANGED dragging_shape
    /\ MotionRest

\* MOUSEBUTTONDOWN
MotionMouseDown ==
    /\ \E pos \in MotionPoints :
         /\ MotionCall("handle_mouse_down", <<pos>>)
         /\ LET r == handle_mouse_down(shapes, dragging_shape, pos) IN
            /\ shapes' = r.shapes
            /\ dragging_shape' = r.dragging_shape
    /\ MotionRest

\* MOUSEMOTION
MotionMouseMotion ==
    /\ \E pos \in MotionPoints :
         /\ MotionCall("handle_mouse_motion", <<pos>>)
         /\ shapes' = handle_mouse_motion(shapes, dragging_shape, pos)
    /\ UNCHANGED dragging_shape
    /\ MotionRest

\* MOUSEBUTTONUP
MotionMouseUp ==
    /\ MotionCall("handle_mouse_up", <<>>)
    /\ LET r == handle_mouse_up(shapes, dragging_shape) IN
         /\ shapes' = r.shapes
         /\ dragging_shape' = r.dragging_shape
    /\ MotionRest

NextMotion ==
    \/ Update
    \/ BounceOff
    \/ MotionMouseDown
    \/ MotionMouseMotion
    \/ MotionMouseUp

SpecMotion == InitMotion /\ [][NextMotion]_vars

\* ------------------------------------------------------------------ properties
\* a step of CheckCollisions in which a mass elimination ran: every
\* elimination removes or peels the shapes of the colliding pair
Eliminated == shapes' # shapes

GameNext == [shapes |-> shapes', target_color |-> target_color',
             last_merged_color |-> last_merged_color',
             level_complete |-> level_complete',
             show_impossible_popup |-> show_impossible_popup']

WithId(shps, id) == {s \in Range(shps) : s.id = id}

\* C1: a mass elimination for collision color C removes every plain shape
\* and every one-shell nested shape of color C, leaves every nested shape
\* of color C with more shells in the list with exactly its first shell
\* gone, and leaves every shape of another color in the list unchanged; no
\* shape is added.
C1_MassElimination ==
    [][Eliminated =>
        LET C == last_merged_color' IN
        /\ \A i \in 1..Len(shapes) :
              LET s == shapes[i]
                  after == WithId(shapes', s.id)
              IN  IF s.color = C
                  THEN IF ~IsNestedShape(s) \/ Len(s.shells) = 1
                       THEN after = {}
                       ELSE /\ Cardinality(after) = 1
                            /\ \A t \in after :
                                  /\ Len(t.shells) = Len(s.shells) - 1
                                  /\ t.shells = Tail(s.shells)
                                  /\ t.kind = s.kind
                  ELSE after = {s}
        /\ \A t \in Range(shapes') : WithId(shapes, t.id) # {}
        /\ Len(shapes') <= Len(shapes)
    ]_vars

\* C1 witness: after a RED elimination a once-peeled NestedShape (its outer
\* shell now the factory's second, size 22) survives next to the untouched
\* third shape of another color, the RED plain shape being gone
C1_Witness ==
    /\ last_merged_color = "RED"
    /\ Len(shapes) = 2
    /\ \E s \in Range(shapes) :
          s.kind = "NestedShape" /\ s.size = 22 /\ Len(s.shells) = 2
    /\ \E s \in Range(shapes) : ~IsNestedShape(s) /\ s.color # "RED"

\* the counts the validator is specified to use: a plain shape adds 1, a
\* nested shape adds its shell count, to the shape's outer color
UnitCount(shps, c) ==
    Cardinality({i \in 1..Len(shps) : ~IsNestedShape(shps[i]) /\ shps[i].color = c})
    + SumSeq([i \in 1..Len(shps) |->
        IF IsNestedShape(shps[i]) /\ shps[i].color = c THEN Len(shps[i].shells) ELSE 0])

PairsOfAllColors(shps) ==
    SumSeq([k \in 1..Len(ColorList) |-> UnitCount(shps, ColorList[k]) \div 2])

WinnableByCounts(shps, target) ==
    /\ UnitCount(shps, target) >= 2
    /\ \/ PairsOfAllColors(shps) = UnitCount(shps, target) \div 2
       \/ UnitCount(shps, target) \div 2 = 1

\* C2: is_level_winnable is true exactly when the target count is at least
\* 2 and (the pairs of all colors equal the target's pairs, or the target
\* has one pair); a level of plain circles with the same color counts gets
\* the same verdict, so the verdict depends on the counts alone.
C2_WinnableFormula ==
    /\ is_level_winnable(shapes, target_color) = WinnableByCounts(shapes, target_color)
    /\ is_level_winnable(shapes, target_color)
       = is_level_winnable(plain_level([c \in Colors |-> UnitCount(shapes, c)]),
                           target_color)

\* C2 witness: a list judged winnable whose target units all come from the
\* shells of nested shapes
C2_Witness ==
    /\ is_level_winnable(shapes, target_color)
    /\ \A s \in Range(shapes) : s.color = target_color => IsNestedShape(s)
    /\ \E s \in Range(shapes) : s.color # target_color

HasCounts(shps, r, b, g) ==
    /\ UnitCount(shps, "RED") = r
    /\ UnitCount(shps, "BLUE") = b
    /\ UnitCount(shps, "GREEN") = g

\* C3 as stated: with target RED the verdict is false for {RED:3, BLUE:2},
\* false for {RED:2, BLUE:2, GREEN:2} and true for {RED:2, BLUE:1}.
C3_AsStated ==
    target_color = "RED" =>
        /\ HasCounts(shapes, 3, 2, 0) => ~is_level_winnable(shapes, target_color)
        /\ HasCounts(shapes, 2, 2, 2) => ~is_level_winnable(shapes, target_color)
        /\ HasCounts(shapes, 2, 1, 0) => is_level_winnable(shapes, target_color)

\* C3 amended: with target RED the verdict is true for {RED:3, BLUE:2}, for
\* {RED:2, BLUE:2, GREEN:2} and for {RED:2, BLUE:1}: RED forms exactly one
\* pair in each.
C3_Amended ==
    target_color = "RED" =>
        /\ HasCounts(shapes, 3, 2, 0) => is_level_winnable(shapes, target_color)
        /\ HasCounts(shapes, 2, 2, 2) => is_level_winnable(shapes, target_color)
        /\ HasCounts(shapes, 2, 1, 0) => is_level_winnable(shapes, target_color)

\* C3 witness: {RED:3, BLUE:2} reached by eliminating GREEN, where
\* check_level_possibility has applied the verdict and raised no popup
C3_Witness ==
    /\ target_color = "RED"
    /\ HasCounts(shapes, 3, 2, 0)
    /\ last_merged_color = "GREEN"
    /\ ~show_impossible_popup

RECURSIVE CanComplete(_)
\* some sequence of same-color collisions, each handled by
\* handle_same_color_collision, ends with level_complete
CanComplete(g) ==
    \/ g.level_complete
    \/ \E p \in ScanPairs(Len(g.shapes)) :
          /\ g.shapes[p[1]].color = g.shapes[p[2]].color
          /\ CanComplete(check_collisions(g, {p}))

\* C4: every configuration judged winnable can be played to level_complete.
C4_WinnableIsSolvable ==
    is_level_winnable(shapes, target_color) => CanComplete(Game)

C8_MovableLeft ==
    [][Eliminated =>
        LET mov == movable_shapes(shapes') IN
        /\ (Len(mov) = 1 /\ mov[1].color = target_color') => level_complete'
        /\ (Len(mov) >= 1 /\ completion_target_count(mov, target_color') = 0) =>
              /\ show_impossible_popup'
              /\ ~level_complete => ~level_complete'
    ]_vars

\* C8 witness: another color was eliminated and the single movable shape
\* left has the target color: the level is complete
C8_Witness ==
    /\ last_merged_color # None
    /\ last_merged_color # target_color
    /\ Len(movable_shapes(shapes)) = 1
    /\ movable_shapes(shapes)[1].color = target_color
    /\ level_complete

\* C9: when check_level_possibility raises the popup after an elimination
\* (shapes remain and they are judged not winnable), no further eliminations
\* complete the level.
C9_ImpossibleIsSound ==
    [][(Eliminated /\ Len(shapes') > 0
        /\ ~is_level_winnable(shapes', target_color')) =>
        ~CanComplete(GameNext)
    ]_vars

RBG == <<<<"RED", 30>>, <<"BLUE", 22>>, <<"GREEN", 14>>>>

\* the first half of C10, which holds: the RED elimination leaves the
\* NestedShape [(RED,30),(BLUE,22),(GREEN,14)] in the list with shells
\* [(BLUE,22),(GREEN,14)] and color BLUE
C10_RedStep ==
    \A i \in 1..Len(shapes) :
        (shapes[i].kind = "NestedShape" /\ shapes[i].shells = RBG
         /\ Eliminated /\ last_merged_color' = "RED") =>
        \E t \in WithId(shapes', shapes[i].id) :
            t.shells = Tail(RBG) /\ t.color = "BLUE"

\* C10 as stated: ... and the following BLUE elimination empties the shape
\* and removes it from the list
C10_AsStated ==
    [][/\ C10_RedStep
       /\ \A i \in 1..Len(shapes) :
            (shapes[i].kind = "NestedShape" /\ shapes[i].shells = Tail(RBG)
             /\ Eliminated /\ last_merged_color' = "BLUE") =>
            WithId(shapes', shapes[i].id) = {}
    ]_vars

\* C10 amended: the RED elimination leaves shells [(BLUE,22),(GREEN,14)] and
\* color BLUE; the following BLUE elimination leaves the shape in the list
\* with the single shell [(GREEN,14)] and color GREEN.
C10_Amended ==
    [][/\ C10_RedStep
       /\ \A i \in 1..Len(shapes) :
            (shapes[i].kind = "NestedShape" /\ shapes[i].shells = Tail(RBG)
             /\ Eliminated /\ last_merged_color' = "BLUE") =>
            \E t \in WithId(shapes', shapes[i].id) :
                t.shells = Tail(Tail(RBG)) /\ t.color = "GREEN" /\ t.size = 14
    ]_vars

\* C10 witness: after the RED and then the BLUE elimination the shape is
\* still in the list, with the shell (GREEN,14) alone
C10_Witness ==
    /\ last_merged_color = "BLUE"
    /\ \E s \in Range(shapes) :
          s.kind = "NestedShape" /\ s.shells = <<<<"GREEN", 14>>>> /\ s.color = "GREEN"

\* C5: a shape list create_level returns is winnable for the target color
\* returned with it (a null list is the only other outcome)
C5_GeneratedIsWinnable ==
    (gen_pc = "returned" /\ ~gen_result.shapes_null)
        => is_level_winnable(gen_result.shapes, gen_result.target_color)

\* C6: create_level always ends by returning: no exception leaves it
C6_NeverRaises == gen_pc # "raised"

\* a shape rebuilt from descriptor d: same kind, color, position and size
Rebuilt(s, d) ==
    /\ s.kind = d.shape_type
    /\ s.color = list_to_color(d.color)
    /\ s.x = d.x /\ s.y = d.y
    /\ s.size = d.size
    /\ s.width = d.width /\ s.height = d.height

\* the live list is the snapshot rebuilt, shape by shape
MatchesSnapshot(shps, snapshot) ==
    /\ Len(shps) = Len(snapshot)
    /\ \A k \in 1..Len(shps) : Rebuilt(shps[k], snapshot[k])

\* C11: a restart of a loaded level yields a live list equal in length,
\* kinds, colors, positions and sizes to the level's snapshot, made of
\* objects that were not in the live list, with level_complete and
\* show_impossible_popup false and last_merged_color None; a drag, a frame
\* of collisions or a restart leaves the snapshot, and with it what
\* get_fresh_shapes rebuilds from it, unchanged
C11_RestartIsolated ==
    [][ /\ (current_level_data.loaded /\ ResetToOriginalLevel) =>
             /\ MatchesSnapshot(shapes', current_level_data.original_shapes)
             /\ Ids(shapes') \cap Ids(shapes) = {}
             /\ ~level_complete'
             /\ ~show_impossible_popup'
             /\ last_merged_color' = None
        /\ (ResetToOriginalLevel \/ HandleMouseDown \/ HandleMouseMotion
              \/ HandleMouseUp \/ CheckCollisions \/ KeyEscape) =>
             /\ current_level_data' = current_level_data
             /\ get_fresh_shapes(current_level_data', {}) =
                  get_fresh_shapes(current_level_data, {}) ]_vars

\* a restarted two-shape level: the live list is the snapshot again, made of
\* objects other than the first two, while the player still holds an object
\* of an earlier list that was dragged
C11_Witness ==
    /\ current_level_data.loaded
    /\ Len(shapes) = 2
    /\ MatchesSnapshot(shapes, current_level_data.original_shapes)
    /\ Ids(shapes) \cap {1, 2} = {}
    /\ dragging_shape \in {1, 2}
    /\ last_merged_color = None
    /\ ~level_complete /\ ~show_impossible_popup

\* the list of kinds and the list of colors of a shape list
KindsOf(shps) == [k \in 1..Len(shps) |-> shps[k].kind]
ColorsOf(shps) == [k \in 1..Len(shps) |-> shps[k].color]

\* C12: building LevelData from a list of Circle, Square, Triangle,
\* Rectangle, NestedShape or StaticShape objects succeeds, and after save,
\* load by id and get_fresh_shapes the rebuilt list has the length, the
\* kinds and the colors of the original, in order
C12_RoundTrip ==
    /\ call.op = "LevelData" => call.raised = None
    /\ (call.op = "get_fresh_shapes" /\ call.arg # <<>>) =>
         /\ call.raised = None
         /\ Len(call.value) = Len(call.arg)
         /\ KindsOf(call.value) = KindsOf(call.arg)
         /\ ColorsOf(call.value) = ColorsOf(call.arg)

\* the first descriptor of a snapshot that dict_to_shape rejects (0: none)
FirstRejected(snapshot) ==
    LET bad == {k \in 1..Len(snapshot) :
                  snapshot[k].shape_type \notin {"Circle", "Square", "Triangle",
                                                 "Rectangle"}}
    IN  IF bad = {} THEN 0 ELSE CHOOSE k \in bad : \A m \in bad : k <= m

\* C13: dict_to_shape on a descriptor whose tag is not a known kind raises
\* ValueError and returns no shape; get_fresh_shapes on a snapshot holding
\* such a descriptor returns no list, not even the shapes before it
C13_UnknownTag ==
    /\ (call.op = "dict_to_shape"
          /\ call.level.original_shapes[call.k].shape_type \notin KnownTags) =>
         (call.raised = "ValueError" /\ call.value = <<>>)
    /\ (call.op = "get_fresh_shapes"
          /\ \E k \in 1..Len(call.level.original_shapes) :
               call.level.original_shapes[k].shape_type \notin KnownTags) =>
         /\ call.value = <<>>
         /\ call.raised # None
         /\ LET k == FirstRejected(call.level.original_shapes) IN
            call.level.original_shapes[k].shape_type \notin KnownTags
              => call.raised = "ValueError"

\* get_fresh_shapes has raised ValueError on a snapshot whose first
\* descriptor is a Circle and whose second has the tag Hexagon
C13_Witness ==
    /\ call.op = "get_fresh_shapes"
    /\ Len(call.level.original_shapes) = 2
    /\ call.level.original_shapes[1].shape_type = "Circle"
    /\ call.level.original_shapes[2].shape_type = "Hexagon"
    /\ call.raised = "ValueError"
    /\ call.value = <<>>

\* the results of create_level that carry a shape list
SuccessfulResults == {r \in NewLevelResults : r.raised = None /\ ~r.shapes_null}

\* the handler left the game with the popup down, the level not complete
\* and the live list rebuilt from the level data it now holds
FreshlyLoaded(lg) ==
    /\ lg.raised = None
    /\ ~lg.show_impossible_popup
    /\ ~lg.level_complete
    /\ lg.current_level_data.loaded
    /\ MatchesSnapshot(lg.shapes, lg.current_level_data.original_shapes)
    /\ Ids(lg.shapes) \cap Ids(shapes) = {}

\* C14: from any state with show_impossible_popup true, restart and a
\* new-level command for which the generator produced a level are accepted
\* and lead to a state with the popup down, level_complete false and a
\* freshly loaded shape list
C14_Recoverable ==
    show_impossible_popup =>
        /\ ENABLED ResetToOriginalLevel
        /\ ENABLED CreateNewLevel
        /\ FreshlyLoaded(reset_to_original_level(LevelGame, Referenced))
        /\ \A r \in SuccessfulResults, id \in NewLevelIds :
             FreshlyLoaded(create_new_level(LevelGame, r, id, Referenced))

\* C15: a check_collisions call on an empty shape list leaves level_complete
\* true when last_merged_color equals target_color, and false when it
\* differs
C15_EmptyListCompletes ==
    (call.op = "check_collisions" /\ call.arg = <<>> /\ shapes = <<>>) =>
        (level_complete <=> last_merged_color = target_color)

\* the step is one check_collisions call, with the overlaps call' records
FrameStep ==
    /\ call'.op = "check_collisions"
    /\ Range(call'.arg) \subseteq ScanPairs(Len(shapes))
    /\ CheckCollisionsWith({Range(call'.arg)})

\* the place in seen of the first overlapping pair of equal color (0: none)
FirstSameColor(seen, shps) ==
    LET same == {k \in 1..Len(seen) :
                   shps[seen[k][1]].color = shps[seen[k][2]].color}
    IN  IF same = {} THEN 0 ELSE CHOOSE k \in same : \A m \in same : k <= m

\* the pair of object identities at the list positions p
IdPair(shps, p) == <<shps[p[1]].id, shps[p[2]].id>>

\* what one elimination of color c leaves of shape s: nothing of a plain
\* shape or a one-shell shape of color c, the shape less its first shell of
\* a larger one of color c, the shape itself otherwise
AfterOneElimination(s, c) ==
    IF s.color # c THEN {s}
    ELSE IF Len(s.shells) <= 1 THEN {}
    ELSE {t \in {[s EXCEPT !.shells = Tail(s.shells),
                           !.color = s.shells[2][1],
                           !.size = s.shells[2][2]]} : TRUE}

\* C16: one check_collisions call processes at most one mass elimination:
\* with a colliding pair of equal color, exactly the shapes of the color of
\* the first such pair in scan order lose one shell or are removed, every
\* other shape stays as it was even when it collides with a shape of its own
\* color, and no pair after that first pair is bounced; without such a pair
\* the list is not changed
C16_OneEliminationPerFrame ==
    [][ FrameStep =>
          LET seen == call'.arg
              k == FirstSameColor(seen, shapes)
          IN  IF k = 0 THEN shapes' = shapes
              ELSE LET c == shapes[seen[k][1]].color IN
                   /\ last_merged_color' = c
                   /\ \A i \in 1..Len(shapes) :
                        {s \in Range(shapes') : s.id = shapes[i].id}
                          = AfterOneElimination(shapes[i], c)
                   /\ Ids(shapes') \subseteq Ids(shapes)
                   /\ \A m \in k..Len(seen) :
                        IdPair(shapes, seen[m]) \notin Range(bounced') ]_vars

\* a frame in which the circles 1 and 2 collided and so did the circles 3
\* and 4 of another color: only the first pair's color was eliminated
C16_Witness ==
    /\ call.op = "check_collisions"
    /\ <<1, 2>> \in Range(call.arg)
    /\ <<3, 4>> \in Range(call.arg)
    /\ last_merged_color = "RED"
    /\ Len(shapes) = 2
    /\ Ids(shapes) = {3, 4}
    /\ \A k \in 1..2 : shapes[k].color = "BLUE" /\ shapes[k].kind = "Circle"

\* C17: every colliding pair of different colors that the scan meets (before
\* the first colliding pair of equal color, or all of them when there is
\* none) gets one bounce_off call, in scan order; a frame with no colliding
\* pair of equal color removes no shape, peels no shell and leaves
\* last_merged_color, level_complete and show_impossible_popup alone
C17_DifferentColorsBounce ==
    [][ FrameStep =>
          LET seen == call'.arg
              k == FirstSameColor(seen, shapes)
              met == IF k = 0 THEN Len(seen) ELSE k - 1
          IN  /\ bounced' = [m \in 1..met |-> IdPair(shapes, seen[m])]
              /\ k = 0 =>
                   /\ shapes' = shapes
                   /\ last_merged_color' = last_merged_color
                   /\ level_complete' = level_complete
                   /\ show_impossible_popup' = show_impossible_popup ]_vars

\* a frame in which three pairs of different colors bounced and four shapes,
\* one of them with two shells, are all still there
C17_Witness ==
    /\ call.op = "check_collisions"
    /\ Len(bounced) = 3
    /\ Len(call.arg) = 3
    /\ Len(shapes) = 4
    /\ \E k \in 1..4 : Len(shapes[k].shells) = 2
    /\ last_merged_color = None

\* C18: remove_outer_shell on a shape with k > 1 shells returns true, removes
\* exactly the first shell, keeps the other k-1 in order and sets color and
\* size to the new first shell; with k = 1 it returns true and empties the
\* shell list, which is what makes the elimination remove the shape whole;
\* with k = 0 it returns false and changes nothing
C18_RemoveOuterShell ==
    call.op = "remove_outer_shell" =>
        LET before == call.arg[1]
            after == shapes[1]
            ret == call.value[1]
            k == Len(before.shells)
        IN  /\ k > 1 =>
                 /\ ret
                 /\ after.shells = SubSeq(before.shells, 2, k)
                 /\ after.color = before.shells[2][1]
                 /\ after.size = before.shells[2][2]
            /\ k = 1 =>
                 /\ ret
                 /\ after.shells = <<>>
                 /\ before.id \in shapes_to_remove(<<before>>, before.color)
            /\ k = 0 => (~ret /\ after = before)
            /\ after.id = before.id /\ after.kind = before.kind

\* remove_outer_shell was called on a shape that two earlier calls had
\* brought from two shells to none
C18_Witness ==
    /\ call.op = "remove_outer_shell"
    /\ Len(call.arg[1].shells) = 0
    /\ call.value = <<FALSE>>
    /\ call.arg[1].kind = "StaticShape"
    /\ call.arg[1].size = 50

\* C19: between frames every NestedShape or StaticShape of the shape list
\* has at least one shell, its color is the color of its first shell and
\* its collision radius is the size of its first shell
C19_ShellsNeverEmpty ==
    \A k \in 1..Len(shapes) :
        IsNestedShape(shapes[k]) =>
            /\ Len(shapes[k].shells) >= 1
            /\ shapes[k].color = shapes[k].shells[1][1]
            /\ get_collision_radius(shapes[k]) = shapes[k].shells[1][2]

\* after two eliminations a NestedShape built with three shells is still in
\* the list with its innermost shell alone, next to a StaticShape that lost
\* its outer shell or never had a second one
C19_Witness ==
    /\ call.op = "check_collisions"
    /\ last_merged_color # None
    /\ \E s \in Range(shapes) :
          /\ s.kind = "NestedShape"
          /\ Len(s.shells) = 1
          /\ s.shells[1][2] = 14
          /\ get_collision_radius(s) = 14
    /\ \E s \in Range(shapes) : s.kind = "StaticShape" /\ Len(s.shells) = 1

\* the shapes of a list that are not StaticShapes
NonStatic(shps) == SelectSeq(shps, LAMBDA s : s.kind # "StaticShape")

\* the shells of the StaticShapes of outer color c
StaticShellCount(shps, c) ==
    SumSeq([i \in 1..Len(shps) |->
        IF shps[i].kind = "StaticShape" /\ shps[i].color = c
        THEN Len(shps[i].shells) ELSE 0])

\* C20: in an elimination of color C every StaticShape of outer color C
\* loses its first shell, or leaves the list when it had one shell; the
\* winnability check that follows counts the shells of the StaticShapes
\* left; the completion check gives the verdict it would give with the
\* StaticShapes taken out of the list
C20_StaticShapes ==
    [][Eliminated =>
        LET C == last_merged_color'
            g1 == [shapes |-> shapes', target_color |-> target_color,
                   last_merged_color |-> C, level_complete |-> level_complete,
                   show_impossible_popup |-> show_impossible_popup]
            g2 == check_level_possibility(g1)
            g3 == check_level_completion([g2 EXCEPT !.shapes = NonStatic(shapes')])
        IN  /\ \A i \in 1..Len(shapes) :
                 (shapes[i].kind = "StaticShape" /\ shapes[i].color = C) =>
                    IF Len(shapes[i].shells) = 1
                    THEN WithId(shapes', shapes[i].id) = {}
                    ELSE \E t \in WithId(shapes', shapes[i].id) :
                            t.shells = Tail(shapes[i].shells)
             /\ \A c \in DOMAIN color_counts(shapes') :
                 color_counts(shapes')[c]
                   = UnitCount(NonStatic(shapes'), c) + StaticShellCount(shapes', c)
             /\ g2.show_impossible_popup =
                  (show_impossible_popup
                     \/ (Len(shapes') > 0 /\ ~WinnableByCounts(shapes', target_color)))
             /\ level_complete' = g3.level_complete
             /\ show_impossible_popup' = g3.show_impossible_popup
    ]_vars

\* the target color was eliminated, a StaticShape of that color lost its
\* outer shell in it and is all that is left: the level is complete
C20_Witness ==
    /\ call.op = "check_collisions"
    /\ last_merged_color = target_color
    /\ level_complete
    /\ Len(shapes) = 1
    /\ shapes[1].kind = "StaticShape"
    /\ shapes[1].shells = <<<<"BLUE", 50>>>>
    /\ target_color = "RED"

\* C27: in every reachable state of a level, level_complete and
\* show_impossible_popup are not both true
C27_CompleteExcludesImpossible == ~(level_complete /\ show_impossible_popup)

\* the units of a shape list: one for a plain shape, one for each shell of
\* a NestedShape or StaticShape
TotalUnits(shps) ==
    SumSeq([i \in 1..Len(shps) |->
        IF IsNestedShape(shps[i]) THEN Len(shps[i].shells) ELSE 1])

\* C29: every mass elimination triggered from check_collisions lowers the
\* total unit count of the shape list (plain shapes plus shells of nested
\* shapes) by at least 2 and adds no shape; the count is a natural number,
\* so only finitely many eliminations fit between two loads
C29_EliminationLowersUnits ==
    [][ (FrameStep /\ FirstSameColor(call'.arg, shapes) # 0) =>
          /\ TotalUnits(shapes') + 2 <= TotalUnits(shapes)
          /\ TotalUnits(shapes') >= 0
          /\ Ids(shapes') \subseteq Ids(shapes)
          /\ Len(shapes') <= Len(shapes) ]_vars

\* two NestedShapes of outer color RED collided and each lost its outer
\* shell, next to an untouched circle: four units became two
C29_Witness ==
    /\ call.op = "check_collisions"
    /\ call.arg # <<>>
    /\ last_merged_color = "RED"
    /\ Len(shapes) = 3
    /\ TotalUnits(shapes) = 3
    /\ Cardinality({k \in 1..3 : shapes[k].kind = "NestedShape"
                                  /\ Len(shapes[k].shells) = 1
                                  /\ shapes[k].color = "BLUE"}) = 2

\* the unit cells a zone covers
Cells(z) == (z.x..(z.x + z.width - 1)) \X (z.y..(z.y + z.height - 1))

\* the children tile the parent: their cells are pairwise disjoint and
\* together are the parent's cells
Tiles(ch, z) ==
    /\ UNION {Cells(ch[k]) : k \in 1..Len(ch)} = Cells(z)
    /\ \A i, j \in 1..Len(ch) : i < j => Cells(ch[i]) \cap Cells(ch[j]) = {}

\* C22: in the zone tree _subdivide_zone builds, the children of each
\* non-leaf zone cover the parent rectangle exactly with no gap and no
\* overlap, the leaf areas sum to the root area, and every leaf has depth
\* equal to max_depth
C22_ZoneTiling ==
    call.op = "_subdivide_zone" =>
        LET root == call.arg[1]
            max_depth == call.arg[2]
            zones == call.value
            leaves == SelectSeq(zones, LAMBDA z : z.depth >= max_depth)
        IN  /\ \A k \in 1..Len(zones) :
                 zones[k].depth < max_depth =>
                    /\ Tiles(zone_children(zones[k]), zones[k])
                    /\ \A c \in Range(zone_children(zones[k])) :
                          /\ c \in Range(zones)
                          /\ c.depth = zones[k].depth + 1
                          /\ c.width >= 0 /\ c.height >= 0
            /\ SumSeq([k \in 1..Len(leaves) |-> leaves[k].width * leaves[k].height])
                 = root.width * root.height
            /\ \A k \in 1..Len(leaves) : leaves[k].depth = max_depth
            /\ leaves = leaf_zones(root, max_depth)

\* a 5 by 3 root at the inset subdivided to depth 3: sixteen leaves, among
\* them the 1 by 1 corner leaf
C22_Witness ==
    /\ call.op = "_subdivide_zone"
    /\ call.arg = <<Zone(ZoneMargin, ZoneMargin, 5, 3, 0), ZoneMaxDepth>>
    /\ Len(SelectSeq(call.value, LAMBDA z : z.depth = ZoneMaxDepth)) = 16
    /\ Len(call.value) = 29
    /\ \E k \in 1..Len(call.value) :
          call.value[k].depth = ZoneMaxDepth
          /\ call.value[k].width * call.value[k].height = 1

\* the root zone of create_zone_based_level: the window inset by the margin
DefaultRoot ==
    Zone(ZoneMargin, ZoneMargin, WINDOW_WIDTH - 2 * ZoneMargin,
         WINDOW_HEIGHT - 2 * ZoneMargin, 0)

\* ch splits z into a left and a right zone of full height
IsVerticalSplit(ch, z) ==
    /\ Len(ch) = 2
    /\ \A k \in 1..2 : ch[k].y = z.y /\ ch[k].height = z.height
    /\ ch[1].x = z.x
    /\ ch[2].x = ch[1].x + ch[1].width
    /\ ch[1].width + ch[2].width = z.width

\* ch splits z into an upper and a lower zone of full width
IsHorizontalSplit(ch, z) ==
    /\ Len(ch) = 2
    /\ \A k \in 1..2 : ch[k].x = z.x /\ ch[k].width = z.width
    /\ ch[1].y = z.y
    /\ ch[2].y = ch[1].y + ch[1].height
    /\ ch[1].height + ch[2].height = z.height

GenDone == gen_pc \in {"returned", "raised"}

\* the guard of CreateLevelZone and CreateLevelLegacy, or the guard of
\* LegacyAttempt with a draw for each of its inputs: a step can be taken
CanAdvance ==
    \/ gen_pc = "idle"
    \/ /\ gen_pc = "legacy"
       /\ gen_attempt < max_level_attempts
       /\ RegularColorings # {} /\ ShapeDraws # {} /\ NestedDraws # {}
       /\ \A nd \in NestedDraws :
             GeometryVerdicts(gen_attempt = max_level_attempts - 1,
                              nd.add_nested) # {}

\* C26: create_level terminates on every run; the legacy loop makes at most
\* max_level_attempts (10) generate-and-validate attempts; auto_fix_overlaps,
\* which tries at most 50 positions per shape, runs only on the final
\* attempt and at most once
C26_CreateLevelTerminates ==
    /\ <>GenDone
    /\ [](/\ gen_attempt + 1 <= max_level_attempts
          /\ max_level_attempts = 10
          /\ gen_autofix <= 1
          /\ gen_autofix = 1 =>
               (GenDone /\ gen_attempt = max_level_attempts - 1)
          /\ \A valid \in SUBSET {0, 1, 49, 50, 60} :
               positions_tried(valid) <= 50
          /\ GenDone \/ CanAdvance)
    /\ [][gen_attempt' # gen_attempt =>
            (gen_attempt' = gen_attempt + 1 /\ gen_autofix = 0 /\ ~GenDone')]_vars

\* the tenth attempt failed validation, auto_fix_overlaps ran once and the
\* second validation failed too: create_level returned the null list
C26_Witness ==
    /\ gen_pc = "returned"
    /\ gen_attempt = 9
    /\ gen_autofix = 1
    /\ gen_result.shapes_null
    /\ gen_result.algorithm = "legacy_generation"

\* C28: after any pointer, elimination and level-load events dragging_shape
\* is None or a shape of the shape list, and only dragging_shape has
\* being_dragged set
C28_DragConsistent ==
    /\ dragging_shape = 0 \/ dragging_shape \in Ids(shapes)
    /\ \A k \in 1..Len(shapes) :
         shapes[k].being_dragged => shapes[k].id = dragging_shape

\* C24: the beat phase passed to update makes no difference to the
\* collision radius of the shape, to its is_colliding_with verdict against
\* the other shapes, or to its contains_point hit test
C24_PulseHasNoEffect ==
    [][call'.op = "update" =>
         LET k == call'.arg[1]
             draw == call'.arg[3]
         IN  \A beat \in BeatPhases :
               LET other == update_shape(shapes[k], beat, draw) IN
               /\ get_collision_radius(other) = get_collision_radius(shapes'[k])
               /\ \A j \in 1..Len(shapes) \ {k} :
                    is_colliding_with(other, shapes[j])
                        = is_colliding_with(shapes'[k], shapes[j])
               /\ \A pos \in MotionPoints :
                    contains_point(other, pos[1], pos[2])
                        = contains_point(shapes'[k], pos[1], pos[2])]_vars

\* the sign of a number
Sign(a) == IF a > 0 THEN 1 ELSE IF a < 0 THEN 0 - 1 ELSE 0

\* the vector points the way the normal does: its cross product with the
\* normal is zero within the rounding of a normal given to 1/Q
AlongNormal(vx, vy, normal) ==
    /\ Sign(vx) \in {0, Sign(normal[1])}
    /\ Sign(vy) \in {0, Sign(normal[2])}
    /\ Abs(MulQ(vx, normal[2]) - MulQ(vy, normal[1]))
           <= 4 + (Abs(vx) + Abs(vy)) \div Q

\* C25: bounce_off changes nothing when the two shapes are separating along
\* the collision normal or their centers coincide; otherwise the two
\* velocities change by equal and opposite amounts along the normal, and
\* when the shapes overlap the two positions are displaced by equal and
\* opposite amounts along it, half the overlap each
C25_BounceOffSymmetric ==
    [][call'.op = "bounce_off" =>
         LET i == call'.arg[1]
             j == call'.arg[2]
             dvx == shapes'[i].velocity_x - shapes[i].velocity_x
             dvy == shapes'[i].velocity_y - shapes[i].velocity_y
             dpx == shapes'[i].x - shapes[i].x
             dpy == shapes'[i].y - shapes[i].y
         IN  IF \/ get_distance_to(shapes[i], shapes[j]) = 0
                \/ vel_along_normal(shapes[i], shapes[j]) > 0
             THEN shapes' = shapes
             ELSE LET normal == collision_normal(shapes[i], shapes[j]) IN
                  /\ shapes'[j].velocity_x - shapes[j].velocity_x = 0 - dvx
                  /\ shapes'[j].velocity_y - shapes[j].velocity_y = 0 - dvy
                  /\ AlongNormal(dvx, dvy, normal)
                  /\ shapes'[j].x - shapes[j].x = 0 - dpx
                  /\ shapes'[j].y - shapes[j].y = 0 - dpy
                  /\ overlap_of(shapes[i], shapes[j]) > 0 =>
                       /\ AlongNormal(dpx, dpy, normal)
                       /\ Abs(2 * Hypot(dpx, dpy)
                                - overlap_of(shapes[i], shapes[j]))
                            <= 4 + 2 * (overlap_of(shapes[i], shapes[j]) \div Q)]_vars

\* the first call of a run was a bounce_off of two overlapping shapes closing
\* in on each other: the first shape was kicked and pushed away
C25_Witness ==
    /\ call.op = "bounce_off"
    /\ call.k = 1
    /\ call.arg = <<1, 2>>
    /\ shapes[1].velocity_x \notin {0, Px(5), 0 - Px(5)}
    /\ shapes[2].velocity_x # 0
    /\ shapes[1].x # Px(100)
    /\ shapes[2].x # Px(124)

\* the position lies outside [max_dimension, extent - max_dimension]
OutsideRange(position, max_dimension, extent) ==
    position < Px(max_dimension) \/ position > Px(extent) - Px(max_dimension)

\* the position lies inside that range
InsideRange(position, max_dimension, extent) ==
    Px(max_dimension) <= position /\ position <= Px(extent) - Px(max_dimension)

\* one axis of the reflection as stated: the velocity after update has the
\* opposite sign of, and a strictly smaller magnitude than, the one before
ReflectsAsStated(integrated, max_dimension, extent, before, position, after) ==
    OutsideRange(integrated, max_dimension, extent) =>
        /\ InsideRange(position, max_dimension, extent)
        /\ Sign(after) * Sign(before) < 0
        /\ Abs(after) < Abs(before)

\* one axis of the reflection as the code does it: settled is the velocity
\* left by friction and perturbation
Reflects(integrated, max_dimension, extent, before, settled, position, after) ==
    OutsideRange(integrated, max_dimension, extent) =>
        /\ InsideRange(position, max_dimension, extent)
        /\ Sign(after) \in {0, 0 - Sign(settled)}
        /\ Abs(after) <= Abs(settled)
        /\ settled # 0 => Abs(after) < Abs(settled)
        /\ Abs(before) * 10 > Q =>
             /\ Sign(after) * Sign(before) < 0
             /\ Abs(after) < Abs(before)

\* C23 as stated: when the position of an undragged shape after integration
\* lies outside [maxDim, WINDOW_WIDTH - maxDim] on X, update leaves X inside
\* that range and the X velocity with the opposite sign and a strictly
\* smaller magnitude; the same on Y with WINDOW_HEIGHT
C23_BoundaryReflection ==
    [][call'.op = "update" =>
         LET s == shapes[call'.arg[1]]
             t == shapes'[call'.arg[1]]
             max_dimension == get_max_dimension(s)
         IN  (s.kind # "StaticShape" /\ ~s.being_dragged) =>
               /\ ReflectsAsStated(
                    s.x + next_momentum(s.momentum_x, s.velocity_x, s.base_size),
                    max_dimension, WINDOW_WIDTH, s.velocity_x, t.x, t.velocity_x)
               /\ ReflectsAsStated(
                    s.y + next_momentum(s.momentum_y, s.velocity_y, s.base_size),
                    max_dimension, WINDOW_HEIGHT, s.velocity_y, t.y, t.velocity_y)]_vars

\* C23 amended: in that case update leaves X inside the range and the X
\* velocity at minus bounce_dampening times the velocity left by friction
\* and perturbation: zero when that is zero, else of its opposite sign and
\* strictly smaller; against the velocity before update the sign is
\* opposite and the magnitude strictly smaller when that velocity was above
\* 0.1 in magnitude; the same on Y with WINDOW_HEIGHT
C23_BoundaryReflectionAmended ==
    [][call'.op = "update" =>
         LET s == shapes[call'.arg[1]]
             t == shapes'[call'.arg[1]]
             draw == call'.arg[3]
             max_dimension == get_max_dimension(s)
         IN  (s.kind # "StaticShape" /\ ~s.being_dragged) =>
               /\ Reflects(
                    s.x + next_momentum(s.momentum_x, s.velocity_x, s.base_size),
                    max_dimension, WINDOW_WIDTH, s.velocity_x,
                    settled_velocity(s.velocity_x, s.velocity_y, s.base_size, draw[1]),
                    t.x, t.velocity_x)
               /\ Reflects(
                    s.y + next_momentum(s.momentum_y, s.velocity_y, s.base_size),
                    max_dimension, WINDOW_HEIGHT, s.velocity_y,
                    settled_velocity(s.velocity_y, s.velocity_x, s.base_size, draw[2]),
                    t.y, t.velocity_y)]_vars

\* the first call of a run was an update of a shape touching the left wall
\* and moving into it: it is back at the wall and moving away from it
C23_Witness ==
    /\ call.op = "update"
    /\ call.k = 1
    /\ Len(shapes) = 1
    /\ shapes[1].x = Px(20)
    /\ shapes[1].y < Px(100)
    /\ shapes[1].velocity_x > 0
    /\ shapes[1].velocity_x < Px(5)

\* C21: a StaticShape keeps its position and its velocity through every
\* update call, every bounce_off between shapes that collide, and every
\* pointer press, move and release
C21_StaticShapeImmobile ==
    [][(call'.op = "bounce_off" =>
            is_colliding_with(shapes[call'.arg[1]], shapes[call'.arg[2]]))
       => \A k \in 1..Len(shapes) :
            shapes[k].kind = "StaticShape" =>
              /\ shapes'[k].x = shapes[k].x
              /\ shapes'[k].y = shapes[k].y
              /\ shapes'[k].velocity_x = shapes[k].velocity_x
              /\ shapes'[k].velocity_y = shapes[k].velocity_y]_vars

====
